---- MODULE Spec2Model ----
(***************************************************************************)
(* Template reassignment core of KMA (reassign.c, ef.c).                   *)
(*                                                                         *)
(* A packed sequence (CompDNA) is a record                                 *)
(*   seqlen  number of bases                                               *)
(*   complen number of 64-bit words that hold the sequence                 *)
(*   seq     the 64-bit words, word w at seq[w+1], 32 bases a word, two    *)
(*           bits a base (0..3 for A,C,G,T), the first base in the high    *)
(*           bits                                                          *)
(*   N       the positions of ambiguous bases, ascending (N[0] of the      *)
(*           source is Len(N))                                             *)
(*   stale   what the words of the buffer after complen hold (the buffer   *)
(*           is reused between calls and is not cleared)                   *)
(* A 64-bit word is a tuple of four 16-bit limbs, the high-order limb      *)
(* first: the checker's integers have 32 bits.  Shifts are given in bits,  *)
(* as in the source.                                                       *)
(***************************************************************************)
EXTENDS Integers, Sequences, FiniteSets, Bags, TLC

VARIABLES
    pc,          \* position of the running call
    m_consensus, \* reassign_matchseqs: CompDNA *consensus
    m_qseq,      \* reassign_matchseqs: CompDNA *qseq (the candidate)
    start,       \* reassign_matchseqs: int start
    match,       \* reassign_matchseqs: int match / the value it returned
    bestTemplates,    \* the candidate buffer; slot 0 of the source is Len
    template_lengths, \* template_lengths[i], i in 1 .. number of templates
    template,         \* the id reassign_popheap returned last
    popped,           \* history: the ids returned by reassign_popheap
    h_input,          \* history: the buffer before reassign_buildheap
    templates,        \* HashMapKMA *templates: the k-mer index
    qseq_comp,        \* static CompDNA *qseq_comp: the packed consensus
    qseq_rc_comp,     \* static CompDNA *qseq_rc_comp: its reverse complement
    Score,            \* static int *Score
    bestTemplates_r,  \* bestTemplates + DB_size: the reverse bucket
    k_rc,             \* reassign_kmers: int rc, the pass
    k_looked,         \* history: the lookups since Score was last swept
    aligned_assem,    \* Assem *aligned_assem
    matrix,           \* AssemInfo *matrix
    tseq,             \* CompDNA *tseq: the template the matrix is moved to
    mo_offset,        \* reassign_matrix_offset: int offset
    mo_t_len,         \* reassign_matrix_offset: int t_len
    mo_status,        \* how reassign_matrix_offset ended
    mo,               \* reassign_matrix_offset: the local variables
    assem0,           \* history: aligned_assem before the call
    matrix0,          \* history: matrix before the call
    seq_in,           \* the file seq_in: the packed template of each id
    strand,           \* the consensus the matcher was last started on
    rc_done,          \* history: assem_rc and assemble_rc were applied
    tried,            \* history: the matcher's verdicts, in order
    ret,              \* reassign_template: the value returned
    thread_num,       \* getExtendedFeatures: int thread_num
    ef_t_len,         \* getExtendedFeatures: int t_len
    next,             \* getExtendedFeatures: static volatile int next
    thread_wait,      \* getExtendedFeatures: static volatile int thread_wait
    workers,          \* the workers of the round: a bag of their positions
                      \* and local variables
    claimed,          \* history: the chunk starts of the round, as claimed
    statics,          \* reassign_template: the static pointers, 0 or set
    allocs,           \* history: the allocations of each cache
    frees,            \* history: the releases of each cache
    name_file,        \* FILE *name_file: its text and its position
    seq_file,         \* the file seq_in: its size and its offset
    name_indexes,     \* static long *name_indexes, entry i at [i + 1]
    seq_indexes,      \* static long *seq_indexes, entry i at [i + 1]
    calls,            \* history: the calls of reassign_template, in order
    ref_fsa,          \* printConsensus: int ref_fsa
    alignment_out,    \* FILE *alignment_out: null, or its lines
    consensus_out,    \* FILE *consensus_out: its lines
    p_loc             \* printConsensus: the local variables

matchVars == <<m_consensus, m_qseq, start, match>>

heapVars == <<bestTemplates, template_lengths, template, popped, h_input>>

kmerVars == <<templates, qseq_comp, qseq_rc_comp, Score, bestTemplates_r,
              k_rc, k_looked>>

matrixVars == <<aligned_assem, matrix, tseq, mo_offset, mo_t_len, mo_status,
                mo, assem0, matrix0>>

tmplVars == <<seq_in, strand, rc_done, tried, ret>>

efVars == <<thread_num, ef_t_len, next, thread_wait, workers, claimed>>

\* the variables of the functions that are called beside the pipeline of
\* reassign_template
callVars == <<statics, allocs, frees, name_file, seq_file, name_indexes,
              seq_indexes, calls>>

printVars == <<ref_fsa, alignment_out, consensus_out, p_loc>>

otherVars == <<efVars, callVars, printVars>>

vars == <<pc, matchVars, heapVars, kmerVars, matrixVars, tmplVars,
          otherVars>>

EFIdle ==
    /\ thread_num = 0
    /\ ef_t_len = 0
    /\ next = 0
    /\ thread_wait = 0
    /\ workers = <<>>
    /\ claimed = <<>>

CallsIdle ==
    /\ statics = <<>>
    /\ allocs = <<>>
    /\ frees = <<>>
    /\ name_file = <<>>
    /\ seq_file = <<>>
    /\ name_indexes = <<>>
    /\ seq_indexes = <<>>
    /\ calls = <<>>

PrintIdle ==
    /\ ref_fsa = 0
    /\ alignment_out = [null |-> TRUE, lines |-> <<>>]
    /\ consensus_out = <<>>
    /\ p_loc = <<>>

OthersIdle == EFIdle /\ CallsIdle /\ PrintIdle

TmplIdle ==
    /\ seq_in = <<>>
    /\ strand = "fw"
    /\ rc_done = FALSE
    /\ tried = <<>>
    /\ ret = 0

TemplateIdle == TmplIdle /\ OthersIdle

MatchIdle ==
    /\ m_consensus = <<>>
    /\ m_qseq = <<>>
    /\ start = 0
    /\ match = -1

MatrixIdle ==
    /\ aligned_assem = <<>>
    /\ matrix = <<>>
    /\ tseq = <<>>
    /\ mo_offset = 0
    /\ mo_t_len = 0
    /\ mo_status = "none"
    /\ mo = <<>>
    /\ assem0 = <<>>
    /\ matrix0 = <<>>

KmerIdle ==
    /\ templates = <<>>
    /\ qseq_comp = <<>>
    /\ qseq_rc_comp = <<>>
    /\ Score = <<>>
    /\ bestTemplates_r = <<>>
    /\ k_rc = 0
    /\ k_looked = <<>>

HeapIdle ==
    /\ bestTemplates = <<>>
    /\ template_lengths = <<>>
    /\ template = 0
    /\ popped = <<>>
    /\ h_input = <<>>

\* ------------------------------------------------------------------ words

WordBases == 32

LimbBases == 8

Limbs == 4

LimbMod == 65536

Bases == 0 .. 3

Min(a, b) == IF a < b THEN a ELSE b

Max(a, b) == IF a < b THEN b ELSE a

Limb(w, i) == IF 1 <= i /\ i <= Limbs THEN w[i] ELSE 0

\* w << bits, 0 <= bits <= 64
Shl(w, bits) ==
    LET q == bits \div 16
        r == bits % 16
    IN  [i \in 1 .. Limbs |->
            ((Limb(w, i + q) * (2 ^ r)) % LimbMod)
              + (Limb(w, i + q + 1) \div (2 ^ (16 - r)))]

\* w >> bits, 0 <= bits <= 64
Shr(w, bits) ==
    LET q == bits \div 16
        r == bits % 16
    IN  [i \in 1 .. Limbs |->
            (Limb(w, i - q) \div (2 ^ r))
              + (IF r = 0 THEN 0
                 ELSE (Limb(w, i - q - 1) * (2 ^ (16 - r))) % LimbMod)]

\* a | b for words with no set bit in common, as getKmer_macro joins them
OrWord(a, b) == [i \in 1 .. Limbs |-> a[i] + b[i]]

\* a < b on unsigned 64-bit words
WordLess(a, b) ==
    \E i \in 1 .. Limbs :
        /\ a[i] < b[i]
        /\ \A h \in 1 .. i - 1 : a[h] = b[h]

\* the word that holds the eight-base groups of f, f[p] the base at p
PackLimb(f, from, n) ==
    LET b(j) == IF from + j < n THEN f[from + j + 1] ELSE 0
    IN  16384 * b(0) + 4096 * b(1) + 1024 * b(2) + 256 * b(3)
          + 64 * b(4) + 16 * b(5) + 4 * b(6) + b(7)

PackWord(f, w, n) ==
    [i \in 1 .. Limbs |-> PackLimb(f, w * WordBases + (i - 1) * LimbBases, n)]

\* Comp[w]; the words after complen hold what an earlier call left
CompWord(c, w) ==
    IF w < c.complen THEN c.seq[w + 1] ELSE [i \in 1 .. Limbs |-> c.stale]

\* getNuc(Comp, pos): (Comp[pos >> 5] << ((pos & 31) << 1)) >> 62
getNuc(c, pos) ==
    LET l == CompWord(c, pos \div WordBases)[((pos % WordBases) \div LimbBases) + 1]
    IN  (l \div (4 ^ (LimbBases - 1 - (pos % LimbBases)))) % 4

\* getKmer_macro(kmer, Comp, pos, cPos, iPos, shifter)
getKmer(c, pos, shifter) ==
    LET iPos == (pos % WordBases) * 2
        cPos == pos \div WordBases
    IN  IF iPos <= shifter
        THEN Shr(Shl(CompWord(c, cPos), iPos), shifter)
        ELSE Shr(OrWord(Shl(CompWord(c, cPos), iPos),
                        Shr(CompWord(c, cPos + 1), 64 - iPos)), shifter)

\* what a limb behind the last word of a buffer may hold
StaleLimbs == {0, LimbMod - 1}

\* ------------------------------------------------------- packed sequences

\* the packed sequence of the bases f[1..n] with complen words
Pack(f, n, complen, N, stale) ==
    [seqlen |-> n,
     complen |-> complen,
     seq |-> [w \in 1 .. complen |-> PackWord(f, w - 1, n)],
     N |-> N,
     stale |-> stale]

\* unpacked bases of c
Unpack(c) == [i \in 1 .. c.seqlen |-> getNuc(c, i - 1)]

\* f with the bases at the positions of N cleared
ClearN(f, N) ==
    [i \in 1 .. Len(f) |->
        IF \E h \in 1 .. Len(N) : N[h] = i - 1 THEN 0 ELSE f[i]]

\* a consensus as compDNA leaves it in qseq_comp: an ambiguous base takes
\* a position, is packed as 0 and its position is listed in N
MkConsensus(f, N, stale) ==
    Pack(ClearN(f, N), Len(f), (Len(f) + WordBases - 1) \div WordBases,
         N, stale)

\* a template as reassign_loadseq leaves it in tseq
MkCandidate(f) == Pack(f, Len(f), (Len(f) \div WordBases) + 1, <<>>, 0)

\* rc_comp(src, dst): the bases reversed, each two-bit pair inverted; the
\* positions in N become seqlen - 1 - N[k], in ascending order
rc_comp(c) ==
    LET n == c.seqlen
        f == [i \in 1 .. n |-> 3 - getNuc(c, n - i)]
    IN  Pack(f, n, c.complen,
             [h \in 1 .. Len(c.N) |-> n - 1 - c.N[Len(c.N) + 1 - h]], c.stale)

\* ------------------------------------------------------- exact matcher

RECURSIVE reassign_getoffset(_, _, _)
reassign_getoffset(qs, kmer, offset) ==
    IF ~(offset < qs.seqlen) THEN -1
    ELSE IF getKmer(qs, offset, 0) = kmer THEN offset
    ELSE reassign_getoffset(qs, kmer, offset + 1)

\* the while(--complen) loop of reassign_cmpseqs: left full words to compare
RECURSIVE cmpFull(_, _, _, _, _)
cmpFull(qs, target, left, w, offset) ==
    IF left = 0 THEN [res |-> 0, w |-> w, offset |-> offset]
    ELSE LET kmer == getKmer(qs, offset, 0)
             tw == CompWord(target, w)
         IN  IF tw # kmer
             THEN [res |-> IF WordLess(tw, kmer) THEN -1 ELSE 1,
                   w |-> w, offset |-> offset]
             ELSE cmpFull(qs, target, left - 1, w + 1, offset + WordBases)

reassign_cmpseqs(qs, target, len, offset) ==
    IF offset < 0 THEN -1
    ELSE
      LET complen == (len \div WordBases)
                       + (IF len % WordBases # 0 THEN 1 ELSE 0)
          full == cmpFull(qs, target, complen - 1, 0, offset)
      IN  IF full.res # 0 THEN full.res
          ELSE IF len % WordBases # 0
          THEN LET sh == 64 - ((len % WordBases) * 2)
                   kmer == Shl(getKmer(qs, full.offset, sh), sh)
                   tw == CompWord(target, full.w)
               IN  IF tw # kmer
                   THEN (IF WordLess(tw, kmer) THEN -1 ELSE 1)
                   ELSE 0
          ELSE 0

RECURSIVE testNsFrom(_, _, _, _)
testNsFrom(N, i, s, e) ==
    IF i > Len(N) THEN 0
    ELSE IF ~(N[i] < e) THEN 0
    ELSE IF s < N[i] /\ N[i] < e THEN N[i]
    ELSE testNsFrom(N, i + 1, s, e)

reassign_testNs(N, s, e) == testNsFrom(N, 1, s, e)

\* the loop of reassign_matchseqs that checks whether N's come in the way:
\* -1 when the candidate cannot be placed, else the start of the search
RECURSIVE matchPre(_, _, _, _)
matchPre(cons, qlen, i, st) ==
    IF i > Len(cons.N) THEN st
    ELSE IF qlen <= cons.N[i] - st THEN st
    ELSE IF cons.seqlen - cons.N[i] < qlen THEN -1
    ELSE matchPre(cons, qlen, i + 1, cons.N[i] + 1)

\* reassign_matchseqs up to its while loop
MS_Pre ==
    /\ pc = "ms_pre"
    /\ LET st == matchPre(m_consensus, m_qseq.seqlen, 1, 0)
       IN  IF st < 0
           THEN /\ pc' = "ms_ret"
                /\ match' = -1
                /\ start' = start
           ELSE /\ pc' = "ms_loop"
                /\ match' = 1
                /\ start' = st - 1
    /\ UNCHANGED <<m_consensus, m_qseq, heapVars, kmerVars,
                   matrixVars, tmplVars>>
    /\ UNCHANGED otherVars

\* the condition of the while loop; it increments start when match is set
MS_Guard ==
    /\ match # 0
    /\ 0 <= start + 1
    /\ m_qseq.seqlen <= m_consensus.seqlen - (start + 1)

\* the body of the while loop of reassign_matchseqs, entered with start
\* already incremented to s0: the new match and start
matchBody(cons, qs, s0) ==
    LET off == reassign_getoffset(cons, CompWord(qs, 0), s0)
        s1 == IF 0 <= off THEN off ELSE qs.seqlen
        cmp == reassign_cmpseqs(cons, qs, qs.seqlen, s1)
        tn == IF cmp = 0
              THEN reassign_testNs(cons.N, s1, s1 + qs.seqlen)
              ELSE cmp
    IN  [match |-> tn, start |-> IF cmp = 0 /\ tn # 0 THEN tn ELSE s1]

\* one iteration of the while loop of reassign_matchseqs
MS_Iter ==
    /\ pc = "ms_loop"
    /\ MS_Guard
    /\ LET b == matchBody(m_consensus, m_qseq, start + 1)
       IN  /\ match' = b.match
           /\ start' = b.start
    /\ UNCHANGED <<pc, m_consensus, m_qseq, heapVars, kmerVars,
                   matrixVars, tmplVars>>
    /\ UNCHANGED otherVars

\* the loop is left and reassign_matchseqs returns match ? -1 : start
MS_Return ==
    /\ pc = "ms_loop"
    /\ ~MS_Guard
    /\ pc' = "ms_ret"
    /\ match' = IF match # 0 THEN -1 ELSE start
    /\ start' = IF match # 0 THEN start + 1 ELSE start
    /\ UNCHANGED <<m_consensus, m_qseq, heapVars, kmerVars,
                   matrixVars, tmplVars>>
    /\ UNCHANGED otherVars

\* ------------------------------------------------------- candidate heap

NORM(id) == IF id < 0 THEN -id ELSE id

Swap(b, i, j) == [b EXCEPT ![i] = b[j], ![j] = b[i]]

\* reassign_heapify, without the left child's test (a heap that C4
\* rules out)
RECURSIVE heapify_RightOnly(_, _, _)
heapify_RightOnly(bests, lengths, index) ==
    LET n == Len(bests)
        r == (2 * index) + 2
        root == IF r < n /\ lengths[NORM(bests[index + 1])]
                               < lengths[NORM(bests[r + 1])]
                THEN r ELSE index
    IN  IF root # index
        THEN heapify_RightOnly(Swap(bests, index + 1, root + 1), lengths, root)
        ELSE bests

\* reassign_heapify(bests, lengths, index): the buffer it leaves.  The
\* source skips the count, so its bests[i] is slot i+1
RECURSIVE reassign_heapify(_, _, _)
reassign_heapify(bests, lengths, index) ==
    LET n == Len(bests)
        l == (2 * index) + 1
        root1 == IF l < n /\ lengths[NORM(bests[index + 1])]
                                < lengths[NORM(bests[l + 1])]
                 THEN l ELSE index
        r == l + 1
        root == IF r < n /\ lengths[NORM(bests[root1 + 1])]
                               < lengths[NORM(bests[r + 1])]
                THEN r ELSE root1
    IN  IF root # index
        THEN reassign_heapify(Swap(bests, index + 1, root + 1), lengths, root)
        ELSE bests

\* the loop while(i--) of reassign_buildheap
RECURSIVE buildFrom(_, _, _)
buildFrom(bests, lengths, i) ==
    IF i = 0 THEN bests
    ELSE buildFrom(reassign_heapify(bests, lengths, i - 1), lengths, i - 1)

reassign_buildheap(bests, lengths) ==
    buildFrom(bests, lengths, Len(bests) \div 2)

\* reassign_popheap: the id it returns and the buffer it leaves
reassign_popheap(bests, lengths) ==
    IF Len(bests) = 0 THEN [template |-> 0, bests |-> bests]
    ELSE [template |-> bests[1],
          bests |-> reassign_heapify(
                        SubSeq([bests EXCEPT ![1] = bests[Len(bests)]],
                               1, Len(bests) - 1),
                        lengths, 0)]

H_Build ==
    /\ pc = "h_build"
    /\ bestTemplates' = reassign_buildheap(bestTemplates, template_lengths)
    /\ pc' = "h_pop"
    /\ UNCHANGED <<matchVars, kmerVars, matrixVars, tmplVars, template_lengths,
                   template, popped, h_input>>
    /\ UNCHANGED otherVars

H_Pop ==
    /\ pc = "h_pop"
    /\ Len(popped) < Len(h_input) + 2
    /\ LET r == reassign_popheap(bestTemplates, template_lengths)
       IN  /\ template' = r.template
           /\ bestTemplates' = r.bests
           /\ popped' = Append(popped, r.template)
    /\ UNCHANGED <<pc, matchVars, kmerVars, matrixVars, tmplVars,
                   template_lengths,
                   h_input>>
    /\ UNCHANGED otherVars

\* ----------------------------------------------------------- k-mer scanner
\* templates is a record: DB_size, kmersize, prefix, prefix_len, index (the
\* hash: k-mer -> number of its value vector, 0 for none) and vectors (the
\* value vectors, each a list of template ids).  Two lookups return the
\* same pointer when they return the same vector number.  Only indexes
\* without minimizers (flag = 0) are modelled.

\* a k-mer of at most 8 bases as a number: the low limb of the word
KmerVal(w) == w[Limbs]

\* updateKmer_macro(kmer, Comp, pos, mask), mask = 4^k - 1
updateKmer(kmer, c, pos, k) == ((kmer * 4) + getNuc(c, pos)) % (4 ^ k)

hashMap_get(tp, kmer) == tp.index[kmer]

\* the flush without the test for the first score (a scanner that C8 rules
\* out)
RECURSIVE flushAlways(_, _, _, _, _)
flushAlways(Sc, bests, vec, i, reps) ==
    IF i > Len(vec) THEN [Score |-> Sc, bests |-> bests]
    ELSE flushAlways([Sc EXCEPT ![vec[i]] = @ + reps],
                     Append(bests, vec[i]), vec, i + 1, reps)

\* the loops while(--n) that add reps to the score of every template of
\* the vector last and append the templates scored for the first time
RECURSIVE flushFrom(_, _, _, _, _)
flushFrom(Sc, bests, vec, i, reps) ==
    IF i > Len(vec) THEN [Score |-> Sc, bests |-> bests]
    ELSE LET t == vec[i]
             Sc1 == [Sc EXCEPT ![t] = @ + reps]
         IN  flushFrom(Sc1,
                       IF Sc1[t] = reps THEN Append(bests, t) ELSE bests,
                       vec, i + 1, reps)

\* the body of if((values = hashMap_get(templates, cmer))) for the lookup
\* of the window at pos; st.looked is history
hit(tp, st, pos, values) ==
    LET st0 == [st EXCEPT !.looked = Append(@, [pos |-> pos, v |-> values])]
    IN  IF values = 0 THEN st0
        ELSE IF values = st.last THEN [st0 EXCEPT !.reps = @ + 1]
        ELSE IF st.last # 0
        THEN LET f == flushFrom(st.Score, st.bests, tp.vectors[st.last], 1,
                                st.reps)
             IN  [st0 EXCEPT !.Score = f.Score, !.bests = f.bests,
                             !.reps = 1, !.last = values]
        ELSE [st0 EXCEPT !.reps = 1, !.last = values]

\* "get last k-mer hits"
tail(tp, st) ==
    IF st.last # 0
    THEN LET f == flushFrom(st.Score, st.bests, tp.vectors[st.last], 1,
                            st.reps)
         IN  [st EXCEPT !.Score = f.Score, !.bests = f.bests]
    ELSE st

\* non-prefix mode: for(j += kmersize - 1; j < end; ++j)
RECURSIVE npInner(_, _, _, _, _, _)
npInner(tp, qs, j, end, kmer, st) ==
    IF ~(j < end) THEN [j |-> j, st |-> st]
    ELSE LET km == updateKmer(kmer, qs, j, tp.kmersize)
         IN  CHOOSE r \in {npInner(tp, qs, j + 1, end, km, st1) :
                            st1 \in {hit(tp, st, j - tp.kmersize + 1,
                                         hashMap_get(tp, km))}} : TRUE

\* non-prefix mode: for(i = 1; i <= qseq->N[0] && j < seqend; ++i)
RECURSIVE npOuter(_, _, _, _, _, _)
npOuter(tp, qs, i, j, seqend, st) ==
    IF i > Len(qs.N) \/ ~(j < seqend) THEN st
    ELSE LET shifter == 64 - (tp.kmersize * 2)
             kmer == KmerVal(getKmer(qs, j, shifter + 2))
             r == npInner(tp, qs, j + tp.kmersize - 1, qs.N[i], kmer, st)
         IN  CHOOSE o \in {npOuter(tp, qs, i + 1, r1.j, seqend, r1.st) :
                            r1 \in {r}} : TRUE

\* prefix mode: for(j += prefix_len - 1; j < end; ++j)
RECURSIVE pInner(_, _, _, _, _, _)
pInner(tp, qs, j, end, pmer, st) ==
    IF ~(j < end) THEN [j |-> j, st |-> st]
    ELSE LET pm == updateKmer(pmer, qs, j, tp.prefix_len)
             shifter == 64 - (tp.kmersize * 2)
             kmer == KmerVal(getKmer(qs, j + 1, shifter))
         IN  CHOOSE r \in {pInner(tp, qs, j + 1, end, pm, st1) :
                            st1 \in {IF pm = tp.prefix
                                     THEN hit(tp, st, j + 1,
                                              hashMap_get(tp, kmer))
                                     ELSE st}} : TRUE

\* prefix mode: for(i = 1; i <= qseq->N[0]; ++i)
RECURSIVE pOuter(_, _, _, _, _)
pOuter(tp, qs, i, j, st) ==
    IF i > Len(qs.N) THEN st
    ELSE LET prefix_shifter == 64 - (tp.prefix_len * 2)
             pmer == KmerVal(getKmer(qs, j, prefix_shifter + 2))
             r == pInner(tp, qs, j + tp.prefix_len - 1,
                         qs.N[i] - tp.kmersize, pmer, st)
         IN  CHOOSE o \in {pOuter(tp, qs, i + 1, r1.j, r1.st) : r1 \in {r}} :
                TRUE

\* one pass over qs, whose N list already ends with the sentinel seqlen:
\* "iterate seq" and "get last k-mer hits"
scanPass(tp, qs, seqend, Sc, bests, looked) ==
    LET st == [Score |-> Sc, bests |-> bests, last |-> 0, reps |-> 0,
               looked |-> looked]
    IN  tail(tp, IF tp.prefix_len # 0
                 THEN pOuter(tp, qs, 1, 0, st)
                 ELSE npOuter(tp, qs, 1, 0, seqend, st))

\* the score a candidate needs: "evaluate scores"
threshold(tp, lengths, t) ==
    IF tp.prefix_len # 0 THEN lengths[tp.DB_size + t]
    ELSE lengths[t] - tp.kmersize + 1

RECURSIVE sweepFrom(_, _, _, _, _, _)
sweepFrom(tp, lengths, Sc, bests, i, kept) ==
    IF i > Len(bests) THEN [Score |-> Sc, bests |-> kept]
    ELSE LET t == bests[i]
         IN  sweepFrom(tp, lengths, [Sc EXCEPT ![t] = 0], bests, i + 1,
                       IF Sc[t] < threshold(tp, lengths, t) THEN kept
                       ELSE Append(kept, t))

\* a sweep that C21 rules out: the scores of the candidates are kept
sweep_KeepScores(tp, lengths, Sc, bests) ==
    [Score |-> Sc, bests |-> sweepFrom(tp, lengths, Sc, bests, 1, <<>>).bests]

sweep(tp, lengths, Sc, bests) == sweepFrom(tp, lengths, Sc, bests, 1, <<>>)

\* "merge matches"
merge(bests, bests_r) == bests \o [i \in 1 .. Len(bests_r) |-> -bests_r[i]]

WithSentinel(qs) == [qs EXCEPT !.N = Append(@, qs.seqlen)]

WithoutSentinel(qs) == [qs EXCEPT !.N = SubSeq(@, 1, Len(@) - 1)]

\* the number of passes of the non-prefix loop: 1 + (prefix ? 0 : 1)
Passes(tp) == IF tp.prefix_len # 0 THEN 2 ELSE 1 + (IF tp.prefix # 0 THEN 0 ELSE 1)

\* reassign_kmers up to its first pass
K_Begin ==
    /\ pc = "k_begin"
    /\ bestTemplates' = <<>>
    /\ bestTemplates_r' = <<>>
    /\ k_rc' = 0
    /\ k_looked' = <<>>
    /\ pc' = "k_scan"
    /\ UNCHANGED <<matchVars, matrixVars, tmplVars, template_lengths,
                   template, popped,
                   h_input, templates, qseq_comp, qseq_rc_comp, Score>>
    /\ UNCHANGED otherVars

\* one pass: the sentinel, the scan and the last hits; in prefix mode also
\* the end of the pass, which removes the sentinel
K_Scan ==
    /\ pc = "k_scan"
    /\ LET qs == WithSentinel(IF k_rc = 0 THEN qseq_comp ELSE qseq_rc_comp)
           seqend == qseq_comp.seqlen - templates.kmersize + 1
           toR == templates.prefix_len = 0 /\ k_rc = 1
           r == scanPass(templates, qs, seqend, Score,
                         IF toR THEN bestTemplates_r ELSE bestTemplates,
                         k_looked)
           qs1 == IF templates.prefix_len # 0 THEN WithoutSentinel(qs) ELSE qs
       IN  /\ Score' = r.Score
           /\ k_looked' = r.looked
           /\ bestTemplates' = IF toR THEN bestTemplates ELSE r.bests
           /\ bestTemplates_r' = IF toR THEN r.bests ELSE bestTemplates_r
           /\ qseq_comp' = IF k_rc = 0 THEN qs1 ELSE qseq_comp
           /\ qseq_rc_comp' = IF k_rc = 0 THEN qseq_rc_comp ELSE qs1
           /\ k_rc' = IF templates.prefix_len # 0 THEN k_rc + 1 ELSE k_rc
           /\ pc' = IF templates.prefix_len # 0 /\ k_rc = 0
                    THEN "k_scan" ELSE "k_sweep"
    /\ UNCHANGED <<matchVars, matrixVars, tmplVars, template_lengths,
                   template, popped,
                   h_input, templates>>
    /\ UNCHANGED otherVars

\* "evaluate scores"; in non-prefix mode also the end of the pass
K_Sweep ==
    /\ pc = "k_sweep"
    /\ LET toR == templates.prefix_len = 0 /\ k_rc = 1
           r == sweep(templates, template_lengths, Score,
                      IF toR THEN bestTemplates_r ELSE bestTemplates)
           np == templates.prefix_len = 0
       IN  /\ Score' = r.Score
           /\ k_looked' = <<>>
           /\ bestTemplates' = IF toR THEN bestTemplates ELSE r.bests
           /\ bestTemplates_r' = IF toR THEN r.bests ELSE bestTemplates_r
           /\ qseq_comp' = IF np /\ k_rc = 0 THEN WithoutSentinel(qseq_comp)
                           ELSE qseq_comp
           /\ qseq_rc_comp' = IF np /\ k_rc = 1
                              THEN WithoutSentinel(qseq_rc_comp)
                              ELSE qseq_rc_comp
           /\ k_rc' = IF np THEN k_rc + 1 ELSE k_rc
           /\ pc' = IF ~np THEN "k_ret"
                    ELSE IF k_rc + 1 < Passes(templates) THEN "k_scan"
                    ELSE "k_merge"
    /\ UNCHANGED <<matchVars, matrixVars, tmplVars, template_lengths,
                   template, popped,
                   h_input, templates>>
    /\ UNCHANGED otherVars

\* "merge matches" and the return of reassign_kmers
K_Merge ==
    /\ pc = "k_merge"
    /\ bestTemplates' = merge(bestTemplates, bestTemplates_r)
    /\ pc' = "k_ret"
    /\ UNCHANGED <<matchVars, matrixVars, tmplVars, template_lengths,
                   template, popped,
                   h_input, templates, qseq_comp, qseq_rc_comp, Score,
                   bestTemplates_r, k_rc, k_looked>>
    /\ UNCHANGED otherVars

\* ------------------------------------------------------ assembly matrix
\*
\* AssemInfo is [assmb, len, size]: assmb holds the nodes that have been
\* written, node i of the source at assmb[i + 1]; the nodes from Len(assmb)
\* up to size are allocated and hold indeterminate values.  A node is
\* [counts, next].  The streams t, s and q of Assem are arrays of
\* characters, the terminator NUL included, character i at [i + 1].

NUL == "NUL"

NULL == -1

bases == <<"A", "C", "G", "T", "N", "-">>

Indeterminate == <<-1, -1, -1, -1, -1, -1>>

Garbage == [counts |-> Indeterminate, next |-> -1]

Sum6(c) == c[1] + c[2] + c[3] + c[4] + c[5] + c[6]

NodeAt(a, i) == a[i + 1]

Readable(a, i) == 0 <= i /\ i < Len(a)

\* assembly[i] = nd
Put(a, i, nd) ==
    IF i < Len(a) THEN [a EXCEPT ![i + 1] = nd]
    ELSE [h \in 1 .. i + 1 |->
            IF h <= Len(a) THEN a[h] ELSE IF h = i + 1 THEN nd ELSE Garbage]

\* assembly[i].next = n
PutNext(a, i, n) ==
    IF i < Len(a) THEN [a EXCEPT ![i + 1].next = n]
    ELSE Put(a, i, [Garbage EXCEPT !.next = n])

\* the while(--len) loop of reassign_matrix_bias, from node i downwards;
\* a node read from outside the nodes written so far is indeterminate
RECURSIVE biasLoop(_, _, _)
biasLoop(a, i, bias) ==
    IF i < 0 THEN a
    ELSE LET src == IF Readable(a, i - bias) THEN NodeAt(a, i - bias)
                    ELSE Garbage
             nd == IF src.next = -1 THEN src
                   ELSE [src EXCEPT !.next = @ + bias]
         IN  CHOOSE r \in {biasLoop(b, i - 1, bias) : b \in {Put(a, i, nd)}} :
                TRUE

reassign_matrix_bias(mx, bias) ==
    LET grow == mx.size <= mx.len + bias
        size == IF grow THEN mx.len + bias + 1 ELSE mx.size
        kept == IF Len(mx.assmb) > size THEN SubSeq(mx.assmb, 1, size)
                ELSE mx.assmb
    IN  IF ~grow /\ bias <= 0 THEN [matrix |-> mx, ret |-> 0]
        ELSE [matrix |-> [assmb |-> biasLoop(kept, mx.len + bias - 1, bias),
                          len |-> mx.len + bias,
                          size |-> size],
              ret |-> bias]

InsertionsGrow == 1024

reassign_matrix_insertions(mx) ==
    LET size == IF mx.size = mx.len THEN mx.size + InsertionsGrow ELSE mx.size
    IN  [matrix |-> [assmb |-> PutNext(mx.assmb, mx.len, 0),
                     len |-> mx.len + 1,
                     size |-> size],
         insertions |-> mx.len]

Trap(x, why) == [x EXCEPT !.st = why]

\* while(*newt && aln_len): the insertions among the next t_len columns
RECURSIVE moCount(_, _, _, _)
moCount(t, q, col, left) ==
    IF t[col + 1] = NUL \/ left = 0 THEN 0
    ELSE (IF t[col + 1] = "-" /\ q[col + 1] # "-" THEN 1 ELSE 0)
         + moCount(t, q, col + 1, left - 1)

\* the branch if(*q != '-') of the relink loop: column col becomes column
\* aln_len of the output and its node moves to node aln_len; *t is read
\* after *++newt has been written
moMatch(x, ts) ==
    LET src == NodeAt(x.assmb, x.pos)
        du == Sum6(src.counts)
        i == x.aln_len
    IN  IF src.counts = Indeterminate THEN Trap(x, "uninit")
        ELSE IF i >= Len(x.t) \/ i >= x.size THEN Trap(x, "oob")
        ELSE
        LET t1 == [x.t EXCEPT ![i + 1] = bases[getNuc(ts, i) + 1]]
            s1 == [x.s EXCEPT ![i + 1] = "|"]
            q1 == [x.q EXCEPT ![i + 1] = x.q[x.col + 1]]
            a1 == IF x.new_ptr # NULL THEN PutNext(x.assmb, x.new_ptr, i)
                  ELSE x.assmb
            a2 == Put(a1, i, NodeAt(a1, x.pos))
            ins == t1[x.col + 1] = "-"
            a3 == IF ins THEN PutNext(a2, x.pos, x.insertions) ELSE a2
        IN  [x EXCEPT !.t = t1, !.s = s1, !.q = q1, !.assmb = a3,
                      !.depth = @ + du, !.depthVar = @ + du * du,
                      !.new_pos = i, !.new_ptr = i, !.aln_len = i + 1,
                      !.insertions = IF ins THEN x.pos ELSE @,
                      !.asm_ptr = IF ins THEN i ELSE x.pos]

\* the else branch of the relink loop: a column without query base keeps
\* its node, moved to a free node when it sits below t_len
moGap(x, t_len) ==
    LET move == x.pos < t_len /\ x.t[x.col + 1] # "-"
        fresh == move /\ x.insertions = 0
        got == reassign_matrix_insertions(
                   [assmb |-> x.assmb, len |-> x.len, size |-> x.size])
        m1 == IF fresh THEN got.matrix
              ELSE [assmb |-> x.assmb, len |-> x.len, size |-> x.size]
        ins1 == IF fresh THEN got.insertions ELSE x.insertions
        new_ptr1 == IF fresh THEN x.new_pos ELSE x.new_ptr
    IN  IF fresh /\ got.insertions >= got.matrix.size THEN Trap(x, "oob")
        ELSE IF move /\ ~Readable(m1.assmb, ins1) THEN Trap(x, "oob")
        ELSE
        LET tmp == NodeAt(m1.assmb, ins1).next
            a2 == IF move THEN Put(m1.assmb, ins1, NodeAt(m1.assmb, x.pos))
                  ELSE m1.assmb
            pos1 == IF move THEN ins1 ELSE x.pos
            ins2 == IF move THEN tmp ELSE x.insertions
        IN  IF new_ptr1 = NULL THEN Trap(x, "null")
            ELSE [x EXCEPT !.assmb = PutNext(a2, new_ptr1, pos1),
                           !.len = m1.len, !.size = m1.size,
                           !.insertions = ins2,
                           !.pos = pos1, !.asm_ptr = pos1,
                           !.new_pos = pos1, !.new_ptr = pos1]

\* what reassign_matrix_offset leaves alone
moFrame == <<matchVars, heapVars, kmerVars, tmplVars, tseq, mo_offset,
             mo_t_len, assem0, matrix0, otherVars>>

\* the streams, the nodes and the local variables as one record
moView ==
    [st |-> "run",
     t |-> aligned_assem.t, s |-> aligned_assem.s, q |-> aligned_assem.q,
     depth |-> aligned_assem.depth, depthVar |-> aligned_assem.depthVar,
     assmb |-> matrix.assmb, len |-> matrix.len, size |-> matrix.size,
     col |-> mo.col, pos |-> mo.pos, asm_ptr |-> mo.asm_ptr,
     new_ptr |-> mo.new_ptr, new_pos |-> mo.new_pos,
     insertions |-> mo.insertions, aln_len |-> mo.aln_len,
     asm_len |-> mo.asm_len, offset |-> mo.offset, bias |-> mo.bias]

\* a read or write outside the arrays, or through the null new_ptr: the
\* call does not return
moStop(why) ==
    /\ mo_status' = why
    /\ pc' = "mo_ret"
    /\ UNCHANGED <<aligned_assem, matrix, mo>>

\* reassign_matrix_offset up to its first loop
MO_Enter ==
    /\ pc = "mo_call"
    /\ mo' = [col |-> 0, pos |-> 0, asm_ptr |-> 0, new_ptr |-> NULL,
              new_pos |-> 0, insertions |-> 0, aln_len |-> 0, asm_len |-> 0,
              offset |-> mo_offset, bias |-> -mo_offset]
    /\ pc' = "mo_skip"
    /\ UNCHANGED <<aligned_assem, matrix, mo_status, moFrame>>

\* while(offset): one column before the offset-th query base
MO_Skip ==
    /\ pc = "mo_skip"
    /\ mo.offset # 0
    /\ IF mo.col >= Len(aligned_assem.q) \/ ~Readable(matrix.assmb, mo.asm_ptr)
       THEN moStop("oob")
       ELSE /\ mo' = [mo EXCEPT
                  !.offset = IF aligned_assem.q[mo.col + 1] # "-" THEN @ - 1
                             ELSE @,
                  !.col = @ + 1,
                  !.pos = NodeAt(matrix.assmb, mo.asm_ptr).next,
                  !.asm_ptr = NodeAt(matrix.assmb, mo.asm_ptr).next]
            /\ UNCHANGED <<pc, aligned_assem, matrix, mo_status>>
    /\ UNCHANGED moFrame

\* "get bias from insertions", "make space for insertions" and the
\* initialisation of the relink loop
MO_Bias ==
    /\ pc = "mo_skip"
    /\ mo.offset = 0
    /\ IF mo.col >= Len(aligned_assem.t)
       THEN moStop("oob")
       ELSE LET b == reassign_matrix_bias(matrix,
                         mo.bias + moCount(aligned_assem.t, aligned_assem.q,
                                           mo.col, mo_t_len))
            IN  /\ matrix' = b.matrix
                /\ mo' = [mo EXCEPT !.bias = b.ret,
                                    !.pos = @ + b.ret,
                                    !.asm_ptr = mo.pos + b.ret]
                /\ aligned_assem' = [aligned_assem EXCEPT !.depth = 0,
                                                          !.depthVar = 0]
                /\ pc' = "mo_loop"
                /\ UNCHANGED mo_status
    /\ UNCHANGED moFrame

\* while(aln_len != t_len): one column, then the advance
MO_Column ==
    /\ pc = "mo_loop"
    /\ mo.aln_len # mo_t_len
    /\ IF mo.col >= Len(aligned_assem.q) \/ ~Readable(matrix.assmb, mo.asm_ptr)
       THEN moStop("oob")
       ELSE LET y == IF aligned_assem.q[mo.col + 1] # "-"
                     THEN moMatch(moView, tseq)
                     ELSE moGap(moView, mo_t_len)
            IN  IF y.st # "run" THEN moStop(y.st)
                ELSE IF ~Readable(y.assmb, y.asm_ptr) THEN moStop("oob")
                ELSE /\ aligned_assem' = [aligned_assem EXCEPT
                            !.t = y.t, !.s = y.s, !.q = y.q,
                            !.depth = y.depth, !.depthVar = y.depthVar]
                     /\ matrix' = [assmb |-> y.assmb, len |-> y.len,
                                   size |-> y.size]
                     /\ mo' = [mo EXCEPT
                            !.col = @ + 1,
                            !.asm_len = @ + 1,
                            !.pos = NodeAt(y.assmb, y.asm_ptr).next,
                            !.asm_ptr = NodeAt(y.assmb, y.asm_ptr).next,
                            !.new_ptr = y.new_ptr,
                            !.new_pos = y.new_pos,
                            !.insertions = y.insertions,
                            !.aln_len = y.aln_len]
                     /\ UNCHANGED <<pc, mo_status>>
    /\ UNCHANGED moFrame

\* "terminate consensus and assembly" and "update aligned_assem"
MO_Finish ==
    /\ pc = "mo_loop"
    /\ mo.aln_len = mo_t_len
    /\ IF mo.new_ptr = NULL THEN moStop("null")
       ELSE IF mo.aln_len >= Len(aligned_assem.t) THEN moStop("oob")
       ELSE /\ aligned_assem' = [aligned_assem EXCEPT
                   !.t[mo.aln_len + 1] = NUL,
                   !.s[mo.aln_len + 1] = NUL,
                   !.q[mo.aln_len + 1] = NUL,
                   !.len = mo.aln_len,
                   !.aln_len = mo.aln_len,
                   !.cover = mo_t_len]
            /\ matrix' = [matrix EXCEPT
                   !.assmb = PutNext(@, mo.new_ptr, 0),
                   !.len = mo.asm_len]
            /\ mo_status' = "ok"
            /\ pc' = "mo_ret"
            /\ UNCHANGED mo
    /\ UNCHANGED moFrame

\* ------------------------------------------------------ reassign_template

\* to2Bit: the nibble of a consensus character
nibble(ch) == CHOOSE n \in 0 .. 5 : bases[n + 1] = ch

IsNibble(n) == n <= 4

\* consensus2qseq with dest->seq == src: the nibbles are written over the
\* stream they are read from
consensus2qseq_InPlace(src, len) ==
    LET seq == SelectSeq([i \in 1 .. len |-> nibble(src[i])], IsNibble)
    IN  [seq |-> seq,
         src |-> [i \in 1 .. Len(src) |->
                    IF i <= Len(seq) THEN bases[seq[i] + 1] ELSE src[i]]]

\* consensus2qseq: dest->seq receives the nibbles of the first len
\* characters of src that are at most 4; src is only read
consensus2qseq(src, len) ==
    [seq |-> SelectSeq([i \in 1 .. len |-> nibble(src[i])], IsNibble),
     src |-> src]

\* the positions of the nibbles 4 of qs from i on, in ascending order
RECURSIVE NFrom(_, _)
NFrom(qs, i) ==
    IF i > Len(qs) THEN <<>>
    ELSE (IF qs[i] = 4 THEN <<i - 1>> ELSE <<>>) \o NFrom(qs, i + 1)

compDNA(qs, stale) == MkConsensus(qs, NFrom(qs, 1), stale)

\* reassign_loadseq(tseq, template_lengths[NORM(template)], seq_in, ...)
reassign_loadseq(file, lengths, id) ==
    MkCandidate(SubSeq(file[NORM(id)], 1, lengths[NORM(id)]))

complement(ch) ==
    IF ch = "A" THEN "T" ELSE IF ch = "T" THEN "A"
    ELSE IF ch = "C" THEN "G" ELSE IF ch = "G" THEN "C" ELSE ch

\* assem_rc: the first len characters of t, s and q reversed, the bases of
\* t and q complemented
assem_rc(as) ==
    LET rev(x, f(_)) == [i \in 1 .. Len(x) |->
                           IF i <= as.len THEN f(x[as.len + 1 - i]) ELSE x[i]]
        same(ch) == ch
    IN  [as EXCEPT !.t = rev(@, complement), !.s = rev(@, same),
                   !.q = rev(@, complement)]

\* the nodes from pos on in list order, at most fuel of them
RECURSIVE listFrom(_, _, _)
listFrom(a, pos, fuel) ==
    IF fuel = 0 \/ ~Readable(a, pos) THEN <<>>
    ELSE <<pos>> \o (IF NodeAt(a, pos).next = 0 THEN <<>>
                     ELSE listFrom(a, NodeAt(a, pos).next, fuel - 1))

\* assemble_rc: the columns in reverse order with complemented counts; the
\* columns with a template base take the nodes below the template length
\* in order, the others the nodes above it
assemble_rc(mx, as) ==
    LET old == listFrom(mx.assmb, 0, mx.len)
        n == Len(old)
        isT(c) == as.t[c] # "-"
        nT == Cardinality({c \in 1 .. n : isT(c)})
        nodeOf(c) == IF isT(c) THEN Cardinality({h \in 1 .. c : isT(h)}) - 1
                     ELSE nT + Cardinality({h \in 1 .. c : ~isT(h)}) - 1
        colOf(i) == CHOOSE c \in 1 .. n : nodeOf(c) = i
        swap(cn) == <<cn[4], cn[3], cn[2], cn[1], cn[5], cn[6]>>
    IN  [mx EXCEPT !.assmb =
            [h \in 1 .. Len(mx.assmb) |->
                IF h > n THEN mx.assmb[h]
                ELSE LET c == colOf(h - 1)
                     IN  [counts |-> swap(NodeAt(mx.assmb,
                                                 old[n + 1 - c]).counts),
                          next |-> IF c = n THEN 0 ELSE nodeOf(c + 1)]]]

\* fixVarOverflow: the variance of the depth as a fraction
fixVarOverflow(as, t_len) ==
    [as EXCEPT !.var = <<(as.depthVar * t_len) - (as.depth * as.depth),
                         t_len * t_len>>]

\* highVar < depthUpdate with highVar = depth / t_len + 3 * sqrt(var)
AboveHighVar(as, t_len, d) ==
    /\ d * t_len > as.depth
    /\ ((d * t_len) - as.depth) * ((d * t_len) - as.depth) > 9 * as.var[1]

\* while(pos != end) of getExtendedFeatures for the one chunk of a template
\* shorter than a chunk
RECURSIVE efWalk(_, _, _, _, _, _, _, _)
efWalk(as, a, ts, t_len, pos, end, acc, fuel) ==
    IF pos = end THEN acc
    ELSE IF fuel = 0 THEN [acc EXCEPT !.st = "loop"]
    ELSE IF ~Readable(a, pos) THEN [acc EXCEPT !.st = "oob"]
    ELSE LET cn == NodeAt(a, pos).counts
             du == cn[1] + cn[2] + cn[3] + cn[4] + cn[5]
             d == du + cn[6]
             nxt == IF NodeAt(a, pos).next = 0 THEN end
                    ELSE NodeAt(a, pos).next
             acc1 == [acc EXCEPT
                 !.deletionSum = IF pos < t_len THEN @ + cn[6] ELSE @,
                 !.snpSum = IF pos < t_len
                            THEN @ + (du - cn[getNuc(ts, pos) + 1]) ELSE @,
                 !.insertSum = IF pos < t_len THEN @ ELSE @ + du,
                 !.maxDepth = IF @ < d THEN d ELSE @,
                 !.nucHighVar = IF AboveHighVar(as, t_len, d) THEN @ + 1
                                ELSE @]
         IN  CHOOSE r \in {efWalk(as, a, ts, t_len, p, end, acc2, fuel - 1) :
                            p \in {nxt}, acc2 \in {acc1}} : TRUE

\* getExtendedFeatures(aligned_assem, matrix, tseq->seq, t_len, 1): one
\* worker, thread_wait 0 on entry, t_len at most one chunk
getExtendedFeatures(as, mx, ts, t_len) ==
    LET half == (as.readCountAln \div 2) + (as.readCountAln % 2)
        as1 == fixVarOverflow(
                   [as EXCEPT !.fragmentCountAln = IF half <= @ THEN @
                                                   ELSE half],
                   t_len)
        acc == efWalk(as1, mx.assmb, ts, t_len, 0, t_len - 1,
                      [st |-> "ok", snpSum |-> 0, insertSum |-> 0,
                       deletionSum |-> 0, maxDepth |-> 0, nucHighVar |-> 0],
                      Len(mx.assmb) + 1)
    IN  [st |-> acc.st,
         assem |-> [as1 EXCEPT !.nucHighVar = acc.nucHighVar,
                               !.maxDepth = acc.maxDepth,
                               !.snpSum = acc.snpSum,
                               !.insertSum = acc.insertSum,
                               !.deletionSum = acc.deletionSum]]

\* templates->prefix || templates->prefix_len: both strands are checked
bothStrands(tp) == tp.prefix # 0 \/ tp.prefix_len # 0

\* the loop condition match < 0 with every candidate taken as failed
keepPopping_Failed(m) == m < 0 \/ m >= 0

\* the loop condition match < 0 of "Go over candidates"
keepPopping(m) == m < 0

\* "reset direction of matches": the id that is returned
resultId(id) == IF id < 0 THEN -id ELSE id

\* "Convert consensus to qseq": consensus2qseq, compDNA and rc_comp; the
\* words of the scratch buffers behind the sequence hold what an earlier
\* call left there
T_Enter ==
    /\ pc = "t_call"
    /\ \E stale \in StaleLimbs :
          LET r == consensus2qseq(aligned_assem.q, aligned_assem.len)
              c == compDNA(r.seq, stale)
          IN  /\ aligned_assem' = [aligned_assem EXCEPT !.q = r.src]
              /\ qseq_comp' = c
              /\ qseq_rc_comp' = rc_comp(c)
    /\ pc' = "k_begin"
    /\ UNCHANGED <<matchVars, heapVars, tmplVars, templates, Score,
                   bestTemplates_r, k_rc, k_looked, matrix, tseq, mo_offset,
                   mo_t_len, mo_status, mo, assem0, matrix0>>
    /\ UNCHANGED otherVars

\* reassign_buildheap(bestTemplates, template_lengths) and match = -1
T_Build ==
    /\ pc = "k_ret"
    /\ h_input' = bestTemplates
    /\ bestTemplates' = reassign_buildheap(bestTemplates, template_lengths)
    /\ match' = -1
    /\ pc' = "t_loop"
    /\ UNCHANGED <<m_consensus, m_qseq, start, template_lengths, template,
                   popped, kmerVars, matrixVars, tmplVars>>
    /\ UNCHANGED otherVars

\* one pass of the loop head and body up to the first reassign_matchseqs:
\* reassign_popheap, then return 0 or reassign_loadseq and the strand
T_Pop ==
    /\ pc = "t_loop"
    /\ keepPopping(match)
    /\ LET r == reassign_popheap(bestTemplates, template_lengths)
           fw == bothStrands(templates) \/ 0 < r.template
       IN  /\ template' = r.template
           /\ bestTemplates' = r.bests
           /\ IF r.template = 0
              THEN /\ ret' = 0
                   /\ pc' = "t_ret"
                   /\ UNCHANGED <<tseq, strand, m_consensus, m_qseq, popped>>
              ELSE /\ tseq' = reassign_loadseq(seq_in, template_lengths,
                                               r.template)
                   /\ strand' = IF fw THEN "fw" ELSE "rc"
                   /\ m_consensus' = IF fw THEN qseq_comp ELSE qseq_rc_comp
                   /\ m_qseq' = tseq'
                   /\ popped' = Append(popped, r.template)
                   /\ pc' = "ms_pre"
                   /\ UNCHANGED ret
    /\ UNCHANGED <<start, match, template_lengths, h_input, kmerVars,
                   aligned_assem, matrix, mo_offset, mo_t_len, mo_status, mo,
                   assem0, matrix0, seq_in, rc_done, tried>>
    /\ UNCHANGED otherVars

\* the return of reassign_matchseqs: the reverse strand after a failure on
\* the forward strand when both are checked, else the loop head
T_Matched ==
    /\ pc = "ms_ret"
    /\ tried' = Append(tried, [template |-> template, strand |-> strand,
                               match |-> match])
    /\ IF bothStrands(templates) /\ strand = "fw" /\ match < 0
       THEN /\ strand' = "rc"
            /\ m_consensus' = qseq_rc_comp
            /\ pc' = "ms_pre"
       ELSE /\ pc' = "t_loop"
            /\ UNCHANGED <<strand, m_consensus>>
    /\ UNCHANGED <<m_qseq, start, match, heapVars, kmerVars, matrixVars,
                   seq_in, rc_done, ret>>
    /\ UNCHANGED otherVars

\* the loop left with a match: "rc org match", "reset direction of matches"
\* and the arguments of reassign_matrix_offset
T_Found ==
    /\ pc = "t_loop"
    /\ ~keepPopping(match)
    /\ IF template < 0
       THEN /\ aligned_assem' = assem_rc(aligned_assem)
            /\ matrix' = assemble_rc(matrix, assem_rc(aligned_assem))
            /\ rc_done' = TRUE
       ELSE UNCHANGED <<aligned_assem, matrix, rc_done>>
    /\ template' = resultId(template)
    /\ mo_offset' = match
    /\ mo_t_len' = template_lengths[resultId(template)]
    /\ pc' = "mo_call"
    /\ UNCHANGED <<matchVars, bestTemplates, template_lengths, popped,
                   h_input, kmerVars, tseq, mo_status, mo, assem0, matrix0,
                   seq_in, strand, tried, ret>>
    /\ UNCHANGED otherVars

\* "Update statistics" and return template
T_Stats ==
    /\ pc = "mo_ret"
    /\ mo_status = "ok"
    /\ LET r == getExtendedFeatures(aligned_assem, matrix, tseq, mo_t_len)
       IN  /\ r.st = "ok"
           /\ aligned_assem' = r.assem
    /\ ret' = template
    /\ pc' = "t_ret"
    /\ UNCHANGED <<matchVars, heapVars, kmerVars, matrix, tseq, mo_offset,
                   mo_t_len, mo_status, mo, assem0, matrix0, seq_in, strand,
                   rc_done, tried>>
    /\ UNCHANGED otherVars

\* --------------------------------------------------- inputs of the matrix

MaxCols == 5

MaxOffset == 2

MaxTLen == 3

\* the kinds of column of an alignment: M a template base under a query
\* base, I a query base under no template base, D a template base under
\* no query base
Kinds == {"M", "I", "D"}

SlackNodes == {0, 2}

QBase(c) == c % 4

TBase(c) == (c + 1) % 4

Count(kinds, c, S) == Cardinality({h \in 1 .. c : kinds[h] \in S})

\* the node of column c: the template columns take the nodes below the
\* template length in order, the insertions the nodes above it
NodeOf(kinds, c) ==
    IF kinds[c] = "I"
    THEN Count(kinds, Len(kinds), {"M", "D"}) + Count(kinds, c, {"I"}) - 1
    ELSE Count(kinds, c, {"M", "D"}) - 1

ColumnOf(kinds, i) == CHOOSE c \in 1 .. Len(kinds) : NodeOf(kinds, c) = i

MkMatrix(kinds, slack) ==
    [assmb |-> [h \in 1 .. Len(kinds) |->
                  LET c == ColumnOf(kinds, h - 1)
                  IN  [counts |-> <<c, 0, 0, 0, 0,
                                    IF kinds[c] = "D" THEN 1 ELSE 0>>,
                       next |-> IF c = Len(kinds) THEN 0
                                ELSE NodeOf(kinds, c + 1)]],
     len |-> Len(kinds),
     size |-> Len(kinds) + slack]

\* the streams of an alignment whose query columns carry the characters qch
MkAssemQ(kinds, qch) ==
    [t |-> [c \in 1 .. Len(kinds) |->
              IF kinds[c] = "I" THEN "-" ELSE bases[TBase(c) + 1]]
           \o <<NUL>>,
     s |-> [c \in 1 .. Len(kinds) |-> IF kinds[c] = "M" THEN "|" ELSE "_"]
           \o <<NUL>>,
     q |-> [c \in 1 .. Len(kinds) |->
              IF kinds[c] = "D" THEN "-"
              ELSE qch[Count(kinds, c, {"M", "I"})]]
           \o <<NUL>>,
     len |-> Len(kinds),
     aln_len |-> Count(kinds, Len(kinds), {"M"}),
     cover |-> Count(kinds, Len(kinds), {"M"}),
     depth |-> 1,
     depthVar |-> 1,
     var |-> <<0, 1>>,
     nucHighVar |-> 0,
     maxDepth |-> 0,
     snpSum |-> 0,
     insertSum |-> 0,
     deletionSum |-> 0,
     readCountAln |-> 3,
     fragmentCountAln |-> 1]

MkAssem(kinds) ==
    MkAssemQ(kinds, [r \in 1 .. Len(kinds) |-> bases[QBase(r) + 1]])

IsGap(ch) == ch = "-"

IsBase(ch) == ch # "-"

\* the query characters of the stream q that are not gaps
NonGap(q, len) == SelectSeq(SubSeq(q, 1, len), IsBase)

BaseOf(ch) == CHOOSE b \in Bases : bases[b + 1] = ch

\* the template that matches the query exactly at offset
MkTemplate(as, offset, t_len) ==
    LET nq == NonGap(as.q, as.len)
    IN  MkCandidate([i \in 1 .. t_len |->
            IF offset + i <= Len(nq) THEN BaseOf(nq[offset + i]) ELSE 0])

InitMatrix ==
    /\ pc = "mo_call"
    /\ TemplateIdle
    /\ MatchIdle
    /\ HeapIdle
    /\ KmerIdle
    /\ \E n \in 1 .. MaxCols :
       \E kinds \in [1 .. n -> Kinds] :
       \E slack \in SlackNodes :
          /\ kinds[1] # "I"
          /\ aligned_assem = MkAssem(kinds)
          /\ matrix = MkMatrix(kinds, slack)
    /\ mo_offset \in 0 .. MaxOffset
    /\ mo_t_len \in 1 .. MaxTLen
    /\ tseq = MkTemplate(aligned_assem, mo_offset, mo_t_len)
    /\ mo_status = "none"
    /\ mo = <<>>
    /\ assem0 = aligned_assem
    /\ matrix0 = matrix

NextMatrix == MO_Enter \/ MO_Skip \/ MO_Bias \/ MO_Column \/ MO_Finish

SpecMatrix == InitMatrix /\ [][NextMatrix]_vars

\* ---------------------------------------------- properties of the matrix

\* the query holds the offset-th and the t_len following query bases
Enough == mo_offset + mo_t_len <= Len(NonGap(assem0.q, assem0.len))

Returned == pc = "mo_ret" /\ mo_status = "ok"

\* len, aln_len and cover are t_len, the streams t, s and q hold t_len
\* characters followed by NUL, s is '|' everywhere, t[i] is base i of tseq
\* and q[i] is the i-th query base of the old consensus that is not a gap,
\* counted from the offset-th
Rewritten ==
        /\ aligned_assem.len = mo_t_len
        /\ aligned_assem.aln_len = mo_t_len
        /\ aligned_assem.cover = mo_t_len
        /\ aligned_assem.t[mo_t_len + 1] = NUL
        /\ aligned_assem.s[mo_t_len + 1] = NUL
        /\ aligned_assem.q[mo_t_len + 1] = NUL
        /\ \A i \in 0 .. mo_t_len - 1 :
              /\ aligned_assem.s[i + 1] = "|"
              /\ aligned_assem.t[i + 1] = bases[getNuc(tseq, i) + 1]
              /\ mo_offset + i + 1 <= Len(NonGap(assem0.q, assem0.len))
              /\ aligned_assem.q[i + 1] =
                    NonGap(assem0.q, assem0.len)[mo_offset + i + 1]

\* C10: after reassign_matrix_offset(matrix, assem, offset, tseq, t_len)
\* has returned, len, aln_len and cover are t_len, the streams t, s and q
\* hold t_len characters followed by NUL, s is '|' everywhere, t[i] is base
\* i of tseq and q[i] is the i-th query base of the old consensus that is
\* not a gap, counted from the offset-th
C10_MatrixOffset == Returned => Rewritten

\* the rewrite is as stated when the old consensus holds the t_len query
\* bases that are asked for
RewrittenInRange == (Returned /\ Enough) => Rewritten

\* a return where columns were skipped, the old alignment held an insertion
\* and a column without query base lay among the columns that were rewritten
InRangeReturn ==
    /\ Returned
    /\ Enough
    /\ mo_offset > 0
    /\ mo_t_len > 1
    /\ \E c \in 1 .. assem0.len : IsGap(assem0.t[c])
    /\ matrix.len > mo_t_len
    /\ aligned_assem.q # assem0.q

\* the nodes reached from node 0 by next, in order
LiveList == listFrom(matrix.assmb, 0, Len(matrix.assmb) + 1)

\* the nodes on the list of free nodes that insertions heads
FreeList ==
    IF mo.insertions = 0 THEN <<>>
    ELSE listFrom(matrix.assmb, mo.insertions, Len(matrix.assmb) + 1)

BelowTLen(i) == i < mo_t_len

NoRepeat(w) == \A i, j \in DOMAIN w : w[i] = w[j] => i = j

\* C11: after reassign_matrix_offset has returned, the walk along next from
\* node 0 ends at a node whose next is 0, visits no node twice, visits the
\* nodes 0 .. t_len - 1 in increasing order and no other node below t_len,
\* and visits no node of the list of free nodes
C11_LiveList ==
    Returned =>
        /\ LiveList # <<>>
        /\ NodeAt(matrix.assmb, LiveList[Len(LiveList)]).next = 0
        /\ NoRepeat(LiveList)
        /\ SelectSeq(LiveList, BelowTLen) = [i \in 1 .. mo_t_len |-> i - 1]
        /\ \A i \in DOMAIN LiveList : \A j \in DOMAIN FreeList :
              LiveList[i] # FreeList[j]

\* the same for calls whose consensus holds the t_len query bases
LiveListInRange == Enough => C11_LiveList

\* the counts that column c (from 1) of the old alignment had
SourceCounts(c) ==
    NodeAt(matrix0.assmb,
           listFrom(matrix0.assmb, 0, Len(matrix0.assmb))[c]).counts

\* the column of the old alignment with the k-th query base (k from 0)
QueryColumn(k) ==
    CHOOSE c \in 1 .. assem0.len :
        /\ IsBase(assem0.q[c])
        /\ Len(NonGap(assem0.q, c)) = k + 1

\* the columns without query base between the first and the last query
\* base of the window
WindowGaps ==
    {c \in QueryColumn(mo_offset) .. QueryColumn(mo_offset + mo_t_len - 1) :
        IsGap(assem0.q[c])}

NodesOf(c) ==
    {i \in DOMAIN LiveList :
        NodeAt(matrix.assmb, LiveList[i]).counts = SourceCounts(c)}

\* C12: reassign_matrix_offset conserves counts (stated for the calls whose
\* consensus holds t_len query bases from the offset): node i < t_len holds
\* the six counts of the column with the i-th query base from the offset,
\* every column without query base inside the window is once in the new
\* list with its counts, and the counts of no column are twice in it
Conserved ==
    /\ Enough
    /\ \A i \in 0 .. mo_t_len - 1 :
          NodeAt(matrix.assmb, i).counts =
              SourceCounts(QueryColumn(mo_offset + i))
    /\ \A c \in WindowGaps : Cardinality(NodesOf(c)) = 1
    /\ \A c \in 1 .. assem0.len : Cardinality(NodesOf(c)) <= 1

C12_CountsConserved == (Returned /\ Enough) => Conserved

\* ----------------------------------------------------- inputs of the heap

MaxHeap == 4

NumTemplates == 3

Ids == {id \in -NumTemplates .. NumTemplates : id # 0}

\* template lengths with ties, by id
LengthPool == <<5, 5, 7, 9, 3, 4, 2, 6, 6>>

LengthArrays ==
    {[i \in 1 .. NumTemplates |->
        LengthPool[((o + i - 1) % Len(LengthPool)) + 1]] : o \in {0, 3, 6}}

RECURSIVE SeqsUpTo(_, _)
SeqsUpTo(S, n) ==
    IF n = 0 THEN {<<>>}
    ELSE LET shorter == SeqsUpTo(S, n - 1)
         IN  shorter \cup {Append(q, x) : q \in {h \in shorter : Len(h) = n - 1},
                                          x \in S}

InitHeap ==
    /\ pc = "h_build"
    /\ TemplateIdle
    /\ MatchIdle
    /\ KmerIdle
    /\ MatrixIdle
    /\ template_lengths \in LengthArrays
    /\ bestTemplates \in SeqsUpTo(Ids, MaxHeap)
    /\ h_input = bestTemplates
    /\ template = 0
    /\ popped = <<>>

NextHeap == H_Build \/ H_Pop

SpecHeap == InitHeap /\ [][NextHeap]_vars

\* --------------------------------------------------- properties of the heap

Occurrences(q, x) == Cardinality({i \in DOMAIN q : q[i] = x})

SameIds(p, q) == \A x \in Ids \cup {0} : Occurrences(p, x) = Occurrences(q, x)

TLen(id) == template_lengths[NORM(id)]

\* C4: after reassign_buildheap slot 1 holds an id of maximal template
\* length; the pops return every buffered id once, in non-increasing
\* template length; every further pop returns 0 and leaves the count 0
C4_HeapOrder ==
    pc = "h_pop" =>
        LET n == Len(h_input)
            k == Len(popped)
        IN  /\ (k = 0 /\ n > 0) =>
                 \A i \in 1 .. n : TLen(bestTemplates[1]) >= TLen(bestTemplates[i])
            /\ \A i \in 1 .. Min(k, n) : popped[i] # 0
            /\ \A i \in 1 .. Min(k, n) - 1 : TLen(popped[i]) >= TLen(popped[i + 1])
            /\ SameIds(SubSeq(popped, 1, Min(k, n)) \o bestTemplates, h_input)
            /\ Len(bestTemplates) = n - Min(k, n)
            /\ \A i \in n + 1 .. k : popped[i] = 0

\* a buffer of four ids that is no heap has been popped empty and popped
\* twice more
C4_Witness ==
    /\ pc = "h_pop"
    /\ Len(h_input) = 4
    /\ TLen(h_input[1]) < TLen(h_input[4])
    /\ TLen(h_input[2]) < TLen(h_input[3])
    /\ Len(popped) = 6

\* ------------------------------------------------- inputs of the scanner

MaxSeq == 5

ScanBases == {0, 1, 2}

ScanNLists == {<<>>, <<1>>, <<2>>, <<0, 3>>}

VectorsA == << <<1>>, <<1, 2>>, <<2, 3>> >>

VectorsB == << <<1, 2>>, <<1, 2>>, <<3>> >>

IndexA == [km \in 0 .. 15 |-> km % 4]

IndexB == [km \in 0 .. 15 |-> (km \div 2) % 4]

ScanDBs ==
    {[DB_size |-> 4, kmersize |-> 2, prefix |-> 0, prefix_len |-> 0,
      index |-> IndexA, vectors |-> VectorsA],
     [DB_size |-> 4, kmersize |-> 2, prefix |-> 0, prefix_len |-> 0,
      index |-> IndexB, vectors |-> VectorsB],
     [DB_size |-> 4, kmersize |-> 2, prefix |-> 1, prefix_len |-> 0,
      index |-> IndexA, vectors |-> VectorsA],
     [DB_size |-> 4, kmersize |-> 2, prefix |-> 5, prefix_len |-> 2,
      index |-> IndexB, vectors |-> VectorsB]}

\* template_lengths[1..3], and after DB_size the lengths the prefix mode
\* reads through template_lengths += DB_size
ScanLengths == <<2, 3, 4, 0, 1, 2, 1>>

ZeroScore(tp) == [t \in 0 .. tp.DB_size - 1 |-> 0]

InitKmers ==
    /\ pc = "k_begin"
    /\ TemplateIdle
    /\ MatchIdle
    /\ MatrixIdle
    /\ templates \in ScanDBs
    /\ template_lengths = ScanLengths
    /\ \E f \in SeqsUpTo(ScanBases, MaxSeq), N \in ScanNLists :
          /\ \A i \in 1 .. Len(N) : N[i] < Len(f)
          /\ qseq_comp = MkConsensus(f, N, 0)
    /\ qseq_rc_comp = rc_comp(qseq_comp)
    /\ Score = ZeroScore(templates)
    /\ bestTemplates = <<>>
    /\ bestTemplates_r = <<>>
    /\ template = 0
    /\ popped = <<>>
    /\ h_input = <<>>
    /\ k_rc = 0
    /\ k_looked = <<>>

NextKmers == K_Begin \/ K_Scan \/ K_Sweep \/ K_Merge

SpecKmers == InitKmers /\ [][NextKmers]_vars

\* ---------------------------------------------- properties of the scanner

\* the reference scanner: every lookup hit adds 1 to the score of every
\* template of its vector and appends the templates whose score becomes 1
RECURSIVE refVec(_, _, _, _)
refVec(Sc, bests, vec, i) ==
    IF i > Len(vec) THEN [Score |-> Sc, bests |-> bests]
    ELSE refVec([Sc EXCEPT ![vec[i]] = @ + 1],
                IF Sc[vec[i]] = 0 THEN Append(bests, vec[i]) ELSE bests,
                vec, i + 1)

RECURSIVE refFrom(_, _, _, _)
refFrom(tp, looked, i, r) ==
    IF i > Len(looked) THEN r
    ELSE refFrom(tp, looked, i + 1,
                 IF looked[i].v = 0 THEN r
                 ELSE refVec(r.Score, r.bests, tp.vectors[looked[i].v], 1))

RefScan(tp, looked) ==
    refFrom(tp, looked, 1, [Score |-> ZeroScore(tp), bests |-> <<>>])

\* the bucket the current pass appends to
Bucket ==
    IF templates.prefix_len = 0 /\ k_rc = 1 THEN bestTemplates_r
    ELSE bestTemplates

\* the scan and its last flush are done and the sweep has not begun
Scanned == pc = "k_sweep" \/ (pc = "k_scan" /\ k_rc = 1 /\ templates.prefix_len # 0)

\* C8: before the threshold sweep the run-length compressed scanner has
\* the scores and the candidate list, in order, of the reference scanner
C8_RepsEquivalent ==
    Scanned =>
        /\ Score = RefScan(templates, k_looked).Score
        /\ Bucket = RefScan(templates, k_looked).bests

\* a scan with a run of two lookups of one vector, a change of vector and
\* a template scored by two vectors
C8_Witness ==
    /\ pc = "k_sweep"
    /\ templates.prefix_len = 0
    /\ \E i \in 1 .. Len(k_looked) - 2 :
          /\ k_looked[i].v # 0
          /\ k_looked[i].v = k_looked[i + 1].v
          /\ k_looked[i + 2].v # 0
          /\ k_looked[i + 2].v # k_looked[i].v
    /\ \E t \in 1 .. 3 : Score[t] >= 3
    /\ Len(Bucket) >= 2

\* ------------------------------------------------ inputs of the matcher

MaxConsLen == 70

Period == 35

\* a base pattern without repeats of a word inside MaxConsLen
Pattern(i) == (i + (i \div 4) + (i \div 16)) % 4

\* the consensus inputs: Pattern, or Pattern repeated with Period, with at
\* most one base changed
ConsBase(per, cm, i) ==
    LET b == IF per = 0 THEN Pattern(i) ELSE Pattern(i % per)
    IN  IF i = cm THEN (b + 1) % 4 ELSE b

ConsLens == {7, 34, MaxConsLen}

ConsShapes == {<<0, -1>>, <<Period, -1>>, <<Period, 36>>}

NLists == {<<>>, <<4>>, <<5>>, <<35>>, <<36>>, <<4, 36>>}

CandLens == {3, 31, 32, 33, 64}

CandOffs == {0, 4, 5, 35}

CandMuts == {-1, 2, 40}

\* the bases f[k+1 .. k+len], with base j changed when 0 <= j < len
Cut(f, k, len, j) ==
    [i \in 1 .. len |-> IF i - 1 = j THEN (f[k + i] + 1) % 4 ELSE f[k + i]]

InitMatch ==
    /\ pc = "ms_pre"
    /\ TemplateIdle
    /\ HeapIdle
    /\ KmerIdle
    /\ MatrixIdle
    /\ start = 0
    /\ match = -1
    /\ \E clen \in ConsLens, sh \in ConsShapes, N \in NLists,
          stale \in StaleLimbs, len \in CandLens, k \in CandOffs,
          j \in CandMuts :
          LET f == [i \in 1 .. clen |-> ConsBase(sh[1], sh[2], i - 1)]
          IN  /\ \A i \in 1 .. Len(N) : N[i] < clen
              /\ k + len <= clen
              /\ j < len
              /\ m_consensus = MkConsensus(f, N, stale)
              /\ m_qseq = MkCandidate(Cut(ClearN(f, N), k, len, j))

NextMatch == MS_Pre \/ MS_Iter \/ MS_Return

SpecMatch == InitMatch /\ [][NextMatch]_vars

\* ------------------------------------------- properties of the matcher

\* the candidate equals the consensus bases k .. k+len-1
OccursAt(c, q, k) ==
    /\ 0 <= k
    /\ k + q.seqlen <= c.seqlen
    /\ \A i \in 0 .. q.seqlen - 1 : getNuc(c, k + i) = getNuc(q, i)

\* some N position of c lies in [k, k+len)
NInside(c, k, len) == \E i \in 1 .. Len(c.N) : k <= c.N[i] /\ c.N[i] < k + len

CleanAt(c, q, k) == OccursAt(c, q, k) /\ ~NInside(c, k, q.seqlen)

\* C5: when the candidate equals c[k..k+len) with no N in that range,
\* reassign_matchseqs returns the smallest such k
C5_ReturnsOffset ==
    pc = "ms_ret" =>
        \A k \in 0 .. m_consensus.seqlen :
            (CleanAt(m_consensus, m_qseq, k)
               /\ \A h \in 0 .. k - 1 : ~CleanAt(m_consensus, m_qseq, h))
            => match = k

\* C6: reassign_matchseqs returns no offset m >= 0 with an N position of
\* the consensus in [m, m+len)
C6_NoNInMatch ==
    (pc = "ms_ret" /\ match >= 0) =>
        ~NInside(m_consensus, match, m_qseq.seqlen)

\* C7: when reassign_matchseqs returns m >= 0 the consensus bases
\* m .. m+len-1 equal the bases of the candidate
C7_MatchIsEqual ==
    (pc = "ms_ret" /\ match >= 0) => OccursAt(m_consensus, m_qseq, match)

\* ------------------------------------------- inputs of reassign_template

\* the templates of the database, by id
TemplateSeqs ==
    << <<0, 1, 2, 3, 1, 2, 3, 0>>, <<2, 3, 0, 2, 2>>, <<0, 1, 2, 0, 1>>,
       <<1, 2, 3, 0, 0>> >>

\* the query characters of the consensus
Queries ==
    { <<"A", "C", "G", "T", "C", "G", "T", "A", "G", "G">>,
      <<"A", "C", "G", "T", "C", "G", "T", "A">>,
      <<"T", "A", "C", "G", "A", "C", "G", "T">>,
      <<"G", "G", "A", "C", "G", "T", "C", "G", "T", "A">>,
      <<"G", "A", "C", "G", "A">>,
      <<"A", "C", "G", "T", "C", "G", "T", "A", "N">>,
      <<"N", "G", "T", "A", "G", "G">>,
      <<"C", "C", "T", "A", "C", "G", "A", "C", "G", "T">>,
      <<"T", "C", "G", "T", "A">> }

\* the column of a deletion further inside the consensus
DeepCol == 6

\* the alignments that carry n query characters: matches only; a deletion
\* and an insertion after the first column; a deletion in the first column;
\* a deletion in column DeepCol

Shapes(n) ==
    { [c \in 1 .. n |-> "M"],
      [c \in 1 .. n + 1 |-> IF c = 2 THEN "D" ELSE IF c = 3 THEN "I" ELSE "M"],
      [c \in 1 .. n + 1 |-> IF c = 1 THEN "D" ELSE "M"],
      [c \in 1 .. n + 1 |-> IF c = DeepCol THEN "D" ELSE "M"] }

RECURSIVE WindowVal(_, _, _)
WindowVal(f, i, k) ==
    IF k = 0 THEN 0 ELSE (WindowVal(f, i, k - 1) * 4) + f[i + k - 1]

\* the starts of the k-mers of f that are indexed: all of them, or those
\* that follow the prefix
Windows(f, k, pl, pv) ==
    {i \in pl + 1 .. Len(f) - k + 1 : pl = 0 \/ WindowVal(f, i - pl, pl) = pv}

Holders(seqs, v, k, pl, pv) ==
    {t \in 1 .. Len(seqs) :
        \E i \in Windows(seqs[t], k, pl, pv) : WindowVal(seqs[t], i, k) = v}

SortedSeq(S) ==
    [i \in 1 .. Cardinality(S) |->
        CHOOSE x \in S : Cardinality({y \in S : y <= x}) = i]

\* the index of the templates seqs: equal value vectors are stored once
MkDB(seqs, k, prefix, prefix_len) ==
    LET keys == 0 .. (4 ^ k) - 1
        H(v) == Holders(seqs, v, k, prefix_len, prefix)
        first(v) == CHOOSE u \in keys :
                        /\ H(u) = H(v)
                        /\ \A w \in keys : H(w) = H(v) => u <= w
        reps == {v \in keys : H(v) # {} /\ first(v) = v}
        rank(v) == Cardinality({u \in reps : u <= v})
    IN  [DB_size |-> Len(seqs) + 1,
         kmersize |-> k,
         prefix |-> prefix,
         prefix_len |-> prefix_len,
         index |-> [v \in keys |-> IF H(v) = {} THEN 0 ELSE rank(first(v))],
         vectors |-> [r \in 1 .. Cardinality(reps) |->
                        SortedSeq(H(CHOOSE u \in reps : rank(u) = r))]]

\* template_lengths: the lengths by id, then the numbers of indexed k-mers
MkLengths(seqs, k, prefix, prefix_len) ==
    [i \in 1 .. (2 * Len(seqs)) + 1 |->
        IF i <= Len(seqs) THEN Len(seqs[i])
        ELSE IF i = Len(seqs) + 1 THEN 0
        ELSE Cardinality(Windows(seqs[i - Len(seqs) - 1], k, prefix_len,
                                 prefix))]

\* the databases: sign-aware, one strand indexed, prefix-anchored
Modes == { <<2, 0, 0>>, <<2, 1, 0>>, <<2, 1, 1>> }

Init ==
    /\ pc = "t_call"
    /\ MatchIdle
    /\ \E md \in Modes :
          /\ templates = MkDB(TemplateSeqs, md[1], md[2], md[3])
          /\ template_lengths = MkLengths(TemplateSeqs, md[1], md[2], md[3])
    /\ seq_in = TemplateSeqs
    /\ bestTemplates = <<>>
    /\ template = 0
    /\ popped = <<>>
    /\ h_input = <<>>
    /\ qseq_comp = <<>>
    /\ qseq_rc_comp = <<>>
    /\ Score = ZeroScore(templates)
    /\ bestTemplates_r = <<>>
    /\ k_rc = 0
    /\ k_looked = <<>>
    /\ \E qch \in Queries :
       \E kinds \in Shapes(Len(qch)) :
       \E slack \in SlackNodes :
          /\ aligned_assem = MkAssemQ(kinds, qch)
          /\ matrix = MkMatrix(kinds, slack)
    /\ tseq = <<>>
    /\ mo_offset = 0
    /\ mo_t_len = 0
    /\ mo_status = "none"
    /\ mo = <<>>
    /\ assem0 = aligned_assem
    /\ matrix0 = matrix
    /\ strand = "fw"
    /\ rc_done = FALSE
    /\ tried = <<>>
    /\ ret = 0
    /\ OthersIdle

Next ==
    \/ T_Enter
    \/ K_Begin
    \/ K_Scan
    \/ K_Sweep
    \/ K_Merge
    \/ T_Build
    \/ T_Pop
    \/ MS_Pre
    \/ MS_Iter
    \/ MS_Return
    \/ T_Matched
    \/ T_Found
    \/ MO_Enter
    \/ MO_Skip
    \/ MO_Bias
    \/ MO_Column
    \/ MO_Finish
    \/ T_Stats

Spec == Init /\ [][Next]_vars

\* --------------------------------------- properties of reassign_template

Returns == pc = "t_ret"

\* the verdicts that are matches, by their place in the order of matching
Hits == {i \in DOMAIN tried : tried[i].match >= 0}

\* C1: reassign_template returns 0 if and only if every candidate popped
\* from the heap failed reassign_matchseqs on every strand tried; otherwise
\* it returns the absolute value of the id of the first candidate that
\* matched, which is positive also for a negative id
C1_ReturnValue ==
    Returns =>
        /\ \A i \in DOMAIN popped :
              \E j \in DOMAIN tried : tried[j].template = popped[i]
        /\ ret = 0 <=> Hits = {}
        /\ Hits # {} =>
              \E f \in Hits :
                 /\ \A h \in Hits : f <= h
                 /\ ret = NORM(tried[f].template)
                 /\ ret > 0

\* a return of the id of a reverse-strand candidate that matched after
\* another candidate had failed
C1_Witness ==
    /\ Returns
    /\ ret > 0
    /\ \E i \in DOMAIN tried :
          /\ tried[i].match >= 0
          /\ tried[i].template < 0
          /\ i > 1
          /\ tried[1].match < 0

\* C2: the streams and statistics of the Assem and the nodes, len and size
\* of the AssemInfo are written only when a match offset >= 0 has been
\* obtained, and a return of 0 leaves them as they were before the call
C2_FailureFrame ==
    [][/\ (aligned_assem' # aligned_assem \/ matrix' # matrix) => match >= 0
       /\ (pc' = "t_ret" /\ ret' = 0) =>
             (aligned_assem' = assem0 /\ matrix' = matrix0)]_vars

\* a return of 0 after candidates were matched, for a consensus with a gap
C2_Witness ==
    /\ Returns
    /\ ret = 0
    /\ Len(tried) > 0
    /\ \E c \in 1 .. assem0.len : IsGap(assem0.q[c])

\* the template of id
Candidate(id) == reassign_loadseq(seq_in, template_lengths, id)

\* the template of id occurs in the consensus, base for base and with no N
\* inside, on a strand on which id is matched
Exact(id) ==
    \E c \in (IF bothStrands(templates) THEN {qseq_comp, qseq_rc_comp}
              ELSE IF 0 < id THEN {qseq_comp} ELSE {qseq_rc_comp}) :
       \E k \in 0 .. c.seqlen : CleanAt(c, Candidate(id), k)

\* C3: the candidates are tried in non-increasing template length and the
\* loop stops at the first match: the returned template is a candidate of
\* the scanner that matches exactly, no strictly longer candidate matches
\* exactly, and no candidate is matched after the first match
C3_FirstLongestMatch ==
    (Returns /\ ret > 0) =>
        LET id == popped[Len(popped)]
        IN  /\ \E i \in DOMAIN h_input : h_input[i] = id
            /\ \A i, j \in DOMAIN popped :
                  i < j => TLen(popped[i]) >= TLen(popped[j])
            /\ \A i \in Hits : i = Len(tried)
            /\ Exact(id)
            /\ \A i \in DOMAIN h_input :
                  TLen(h_input[i]) > TLen(id) => ~Exact(h_input[i])

\* C9: when the accepted offset comes from matching against qseq_rc_comp,
\* the assembly has been reverse-complemented before reassign_matrix_offset
\* is applied, and the id returned is positive
C9_ReverseComplemented ==
    (/\ pc \in {"mo_call", "mo_skip", "mo_loop", "mo_ret", "t_ret"}
     /\ match >= 0
     /\ strand = "rc") =>
        /\ rc_done
        /\ template > 0
        /\ Returns => ret > 0

\* ---------------------------------------------- getExtendedFeatures, workers

\* unsigned chunk = 8112, scaled down so that a template of a few positions
\* has several chunks
Chunk == 2

\* static volatile int next: the width of int, scaled down from 32 so that
\* next + chunk can pass the largest int
IntBits == 4

\* the value of an int after an addition that wraps
asInt(n) == ((n + (2 ^ (IntBits - 1))) % (2 ^ IntBits)) - (2 ^ (IntBits - 1))

\* a claim that a wrap sends back to the start of the template
claimNext_Restart(n, chunk, t_len) ==
    IF asInt(n + chunk) < 0 THEN 0 ELSE asInt(n + chunk)

\* if((next += chunk) < 0) next = t_len
claimNext(n, chunk, t_len) ==
    IF asInt(n + chunk) < 0 THEN t_len ELSE asInt(n + chunk)

\* if(!thread_wait): the worker is the first of its round
firstEntry(tw) == tw = 0

\* if(aligned_assem->maxDepth < maxDepth) aligned_assem->maxDepth = maxDepth
foldMax_Last(agg, local) == local

foldMax(agg, local) == IF agg < local THEN local ELSE agg

\* --thread_wait
countDown_ToZero(tw) == 0

countDown(tw) == tw - 1

\* worker w of the bag moves on as v
Move(b, w, v) == (b (-) SetToBag({w})) (+) SetToBag({v})

\* what getExtendedFeatures leaves alone
efFrame == <<pc, matchVars, heapVars, kmerVars, tmplVars, callVars,
            printVars>>

\* a worker that has not entered yet
Fresh ==
    [pc |-> "enter", round |-> 1, chunk |-> Chunk, pos |-> 0,
     st |-> "ok",
     hv |-> [depth |-> 0, var |-> <<0, 1>>],
     snpSum |-> 0, insertSum |-> 0, deletionSum |-> 0, maxDepth |-> 0,
     nucHighVar |-> 0]

\* a worker takes the lock for the first time, initialises the round if it
\* is the first, and computes highVar
E_Enter ==
    /\ pc = "ef"
    /\ \E w \in BagToSet(workers) :
          /\ w.pc = "enter"
          /\ LET first == firstEntry(thread_wait)
                 half == (aligned_assem.readCountAln \div 2)
                         + (aligned_assem.readCountAln % 2)
                 as1 == IF first
                        THEN [aligned_assem EXCEPT
                                 !.fragmentCountAln =
                                     IF half <= @ THEN @ ELSE half,
                                 !.nucHighVar = 0, !.maxDepth = 0,
                                 !.snpSum = 0, !.insertSum = 0,
                                 !.deletionSum = 0]
                        ELSE aligned_assem
                 as2 == fixVarOverflow(as1, ef_t_len)
             IN  /\ aligned_assem' = as2
                 /\ next' = IF first THEN 0 ELSE next
                 /\ thread_wait' = IF first THEN thread_num ELSE thread_wait
                 /\ claimed' = IF first THEN <<>> ELSE claimed
                 /\ workers' = Move(workers, w,
                        [w EXCEPT !.pc = "claim",
                                  !.hv = [depth |-> as2.depth,
                                          var |-> as2.var]])
    /\ UNCHANGED <<efFrame, matrix, tseq,
                   mo_offset, mo_t_len, mo_status, mo, assem0, matrix0,
                   thread_num, ef_t_len>>

\* "get next chunk", under the lock
E_Claim ==
    /\ pc = "ef"
    /\ \E w \in BagToSet(workers) :
          /\ w.pc = "claim"
          /\ next' = claimNext(next, w.chunk, ef_t_len)
          /\ claimed' = Append(claimed, next)
          /\ workers' = Move(workers, w, [w EXCEPT !.pc = "call",
                                                   !.pos = next])
    /\ UNCHANGED <<efFrame, matrixVars,
                   thread_num, ef_t_len, thread_wait>>

\* "call chunk": the positions from pos up to end, and the insertions
\* that follow them; pos is not read again before it is assigned, and is
\* kept as 0 from here on
E_Chunk ==
    /\ pc = "ef"
    /\ \E w \in BagToSet(workers) :
          /\ w.pc = "call"
          /\ LET last == ef_t_len <= w.pos + w.chunk
                 end == IF last THEN ef_t_len - 1 ELSE w.pos + w.chunk
                 v == IF w.pos < ef_t_len
                      THEN [efWalk(w.hv, matrix.assmb, tseq, ef_t_len,
                                   w.pos, end, w, Len(matrix.assmb) + 1)
                               EXCEPT !.chunk = IF last THEN 0 ELSE @]
                      ELSE [w EXCEPT !.chunk = 0]
             IN  workers' = Move(workers, w,
                     [v EXCEPT !.pc = IF v.chunk = 0 THEN "fold"
                                      ELSE "claim",
                               !.pos = 0])
    /\ UNCHANGED <<efFrame, matrixVars,
                   thread_num, ef_t_len, next, thread_wait, claimed>>

\* the local sums are added to those of the Assem, under the lock
E_Fold ==
    /\ pc = "ef"
    /\ \E w \in BagToSet(workers) :
          /\ w.pc = "fold"
          /\ aligned_assem' = [aligned_assem EXCEPT
                 !.nucHighVar = @ + w.nucHighVar,
                 !.maxDepth = foldMax(@, w.maxDepth),
                 !.snpSum = @ + w.snpSum,
                 !.insertSum = @ + w.insertSum,
                 !.deletionSum = @ + w.deletionSum]
          /\ thread_wait' = countDown(thread_wait)
          /\ workers' = Move(workers, w, [w EXCEPT !.pc = "wait"])
    /\ UNCHANGED <<efFrame, matrix, tseq,
                   mo_offset, mo_t_len, mo_status, mo, assem0, matrix0,
                   thread_num, ef_t_len, next, claimed>>

\* wait_atomic(thread_wait), then the return
E_Return ==
    /\ pc = "ef"
    /\ \E w \in BagToSet(workers) :
          /\ w.pc = "wait"
          /\ thread_wait = 0
          /\ workers' = Move(workers, w, [w EXCEPT !.pc = "done"])
    /\ UNCHANGED <<efFrame, matrixVars,
                   thread_num, ef_t_len, next, thread_wait, claimed>>

\* ------------------------------------------ inputs of getExtendedFeatures

ThreadNums == {1, 2, 4, 8}

\* alignments with one, four, five and six template positions
EFShapes ==
    { <<"M">>,
      <<"M", "I", "D", "M", "D", "I">>,
      <<"M", "M", "M", "M", "M">>,
      <<"D", "M", "I", "M", "M", "I", "M", "D">> }

\* what the sums of the Assem and the static next hold from an earlier
\* round
StaleSums == {0, 3}

InitEF ==
    /\ pc = "ef"
    /\ MatchIdle
    /\ HeapIdle
    /\ KmerIdle
    /\ TmplIdle
    /\ CallsIdle
    /\ PrintIdle
    /\ \E kinds \in EFShapes, stale \in StaleSums :
          /\ aligned_assem = [MkAssem(kinds) EXCEPT
                 !.nucHighVar = stale, !.maxDepth = 9 * stale,
                 !.snpSum = stale, !.insertSum = stale,
                 !.deletionSum = stale]
          /\ matrix = MkMatrix(kinds, 0)
          /\ ef_t_len = Count(kinds, Len(kinds), {"M", "D"})
    /\ tseq = MkCandidate([i \in 1 .. ef_t_len |-> i % 4])
    /\ mo_offset = 0
    /\ mo_t_len = 0
    /\ mo_status = "none"
    /\ mo = <<>>
    /\ assem0 = aligned_assem
    /\ matrix0 = matrix
    /\ thread_num \in ThreadNums
    /\ next = aligned_assem.snpSum * Chunk
    /\ thread_wait = 0
    /\ workers = [w \in {Fresh} |-> thread_num]
    /\ claimed = <<>>

NextEF == E_Enter \/ E_Claim \/ E_Chunk \/ E_Fold \/ E_Return

SpecEF == InitEF /\ [][NextEF]_vars

\* ------------------------------------ getExtendedFeatures, round on round

\* the calls that each worker of the pool makes, one after the other
MaxRounds == 2

\* a worker that has returned calls getExtendedFeatures again for the next
\* template; nothing but the function itself holds it back
E_Again ==
    /\ pc = "ef"
    /\ \E w \in BagToSet(workers) :
          /\ w.pc = "done"
          /\ w.round < MaxRounds
          /\ workers' = Move(workers, w, [Fresh EXCEPT !.round = w.round + 1])
    /\ UNCHANGED <<efFrame, matrixVars,
                   thread_num, ef_t_len, next, thread_wait, claimed>>

PoolSizes == {2, 3}

InitRounds ==
    /\ InitEF
    /\ thread_num \in PoolSizes
    /\ aligned_assem.snpSum = 0

NextRounds == NextEF \/ E_Again

SpecRounds == InitRounds /\ [][NextRounds]_vars /\ WF_vars(NextRounds)

\* ------------------------------------- properties of getExtendedFeatures

RECURSIVE Total(_)
Total(q) == IF q = <<>> THEN 0 ELSE Head(q) + Total(Tail(q))

Sum5(c) == c[1] + c[2] + c[3] + c[4] + c[5]

\* every worker of the round has returned
RoundDone == pc = "ef" /\ \A w \in BagToSet(workers) : w.pc = "done"

\* the nodes of the list from node 0 that come before node t_len - 1
Walked ==
    LET w == listFrom(matrix.assmb, 0, Len(matrix.assmb) + 1)
        k == CHOOSE i \in DOMAIN w : w[i] = ef_t_len - 1
    IN  SubSeq(w, 1, k - 1)

Counts(p) == NodeAt(matrix.assmb, p).counts

Snp(p) == Sum5(Counts(p)) - Counts(p)[getNuc(tseq, p) + 1]

Over(nodes, F(_)) == Total([i \in DOMAIN nodes |-> F(nodes[i])])

WalkedSnp(p) == IF p < ef_t_len THEN Snp(p) ELSE 0

WalkedDeletion(p) == IF p < ef_t_len THEN Counts(p)[6] ELSE 0

WalkedInsert(p) == IF p < ef_t_len THEN 0 ELSE Sum5(Counts(p))

WalkedHigh(p) ==
    IF AboveHighVar(aligned_assem, ef_t_len, Sum6(Counts(p))) THEN 1 ELSE 0

\* C13: for a matrix, a template and a t_len the sums snpSum, insertSum,
\* deletionSum, maxDepth and nucHighVar that a round of getExtendedFeatures
\* leaves in the Assem are the same for every interleaving of the workers
\* and for every thread_num: they are sums over the nodes of the list
C13_SameForAllSchedules ==
    RoundDone =>
        /\ aligned_assem.snpSum = Over(Walked, WalkedSnp)
        /\ aligned_assem.deletionSum = Over(Walked, WalkedDeletion)
        /\ aligned_assem.insertSum = Over(Walked, WalkedInsert)
        /\ aligned_assem.nucHighVar = Over(Walked, WalkedHigh)
        /\ \A i \in DOMAIN Walked :
              Sum6(Counts(Walked[i])) <= aligned_assem.maxDepth
        /\ \/ aligned_assem.maxDepth = 0 /\ Walked = <<>>
           \/ \E i \in DOMAIN Walked :
                 Sum6(Counts(Walked[i])) = aligned_assem.maxDepth

\* a round of eight workers of which three have walked a chunk, over sums
\* left from an earlier round
C13_Witness ==
    /\ RoundDone
    /\ thread_num = 8
    /\ assem0.snpSum # 0
    /\ Cardinality({w \in BagToSet(workers) : w.maxDepth > 0}) >= 3

TemplatePositions == [i \in 1 .. ef_t_len |-> i - 1]

\* C14: after a round deletionSum is the sum of counts[5] and snpSum the
\* sum of counts[0] + ... + counts[4] less the count of the template's base
\* over the positions 0 .. t_len - 1, the last one included
C14_EveryPosition ==
    RoundDone =>
        /\ aligned_assem.deletionSum = Over(TemplatePositions, WalkedDeletion)
        /\ aligned_assem.snpSum = Over(TemplatePositions, WalkedSnp)

\* C15: no worker of a round returns before all thread_num workers have
\* added their sums to those of the Assem and thread_wait is 0
C15_Barrier ==
    (pc = "ef" /\ \E w \in BagToSet(workers) : w.pc = "done") =>
        /\ thread_wait = 0
        /\ \A w \in BagToSet(workers) : w.pc \in {"wait", "done"}
        /\ aligned_assem.snpSum = Over(Walked, WalkedSnp)
        /\ aligned_assem.deletionSum = Over(Walked, WalkedDeletion)

\* a worker has returned while another one still waits, in a round of four
C15_Witness ==
    /\ pc = "ef"
    /\ thread_num = 4
    /\ \E w \in BagToSet(workers) : w.pc = "done"
    /\ \E w \in BagToSet(workers) : w.pc = "wait"

\* --------------------------------- reassign_template: statics and files

\* the static pointers of reassign_template
Statics == {"bestTemplates", "Score", "seq_indexes", "name_indexes",
            "to2Bit", "complement", "qseq_comp", "qseq_rc_comp"}

\* what is allocated behind them: the blocks they point to and the buffers
\* of the two CompDNA (allocComp, freeComp)
Caches == Statics \cup {"qseq_comp buffers", "qseq_rc_comp buffers"}

NL == "NL"

EOF == "EOF"

\* fgetc(name_file)
fgetc(f) ==
    IF f.pos < Len(f.text)
    THEN [ch |-> f.text[f.pos + 1], file |-> [f EXCEPT !.pos = @ + 1]]
    ELSE [ch |-> EOF, file |-> f]

\* fseek(name_file, off, SEEK_SET) and lseek(file, off, SEEK_SET)
SeekSet(f, off) == [f EXCEPT !.pos = off]

\* nameLoad(qseq, name_file): reads one line
RECURSIVE nameLoad(_)
nameLoad(f) ==
    LET g == fgetc(f)
    IN  IF g.ch = EOF \/ g.ch = NL THEN g.file ELSE nameLoad(g.file)

\* the bytes of a packed sequence of len bases: complen * sizeof(long
\* unsigned)
SeqBytes(len) == ((len \div 32) + 1) * 8

\* !bestTemplates: the scratch has to be initialised
needsInit_Always(st) == TRUE

needsInit(st) == st.bestTemplates = 0

\* the arguments are those of a clean up
IsTeardown(args) ==
    /\ ~args.name_file /\ ~args.seq_in /\ ~args.template_lengths
    /\ ~args.aligned_assem /\ ~args.matrix /\ ~args.qseq /\ ~args.tseq

\* "clean up": the frees of a scratch that is allocated, and the reset
teardownFrees(st) == IF st.bestTemplates # 0 THEN Caches ELSE {}

\* "make file indexes": seq_indexes
RECURSIVE seqIndexFrom(_, _, _, _)
seqIndexFrom(idx, lengths, i, DB_size) ==
    IF i >= DB_size THEN idx
    ELSE seqIndexFrom([idx EXCEPT ![i + 1] =
                          idx[i] + SeqBytes(lengths[i - 1])],
                      lengths, i + 1, DB_size)

\* while(i < templates->DB_size) over the names; a file that ends early
\* keeps the loop running
RECURSIVE nameIndexFrom(_, _, _, _, _)
nameIndexFrom(f, idx, i, DB_size, fuel) ==
    IF i >= DB_size THEN [st |-> "ok", file |-> f, idx |-> idx]
    ELSE IF fuel = 0 THEN [st |-> "loop", file |-> f, idx |-> idx]
    ELSE LET g == fgetc(f)
             idx1 == [idx EXCEPT ![i + 1] = @ + 1]
             idx2 == IF g.ch = NL THEN [idx1 EXCEPT ![i + 2] = idx1[i + 1]]
                     ELSE idx1
         IN  CHOOSE r \in {nameIndexFrom(h, x, j, DB_size, fuel - 1) :
                             h \in {g.file}, x \in {idx2},
                             j \in {IF g.ch = NL THEN i + 1 ELSE i}} : TRUE

\* reassign_loadseq without the reset of the file descriptor
loadseqFile_NoReset(f, len, offset) ==
    LET f2 == SeekSet(f, offset)
        got == Min(SeqBytes(len), f.size - offset)
    IN  [file |-> [f2 EXCEPT !.pos = @ + Max(got, 0)],
         st |-> IF got < SeqBytes(len) THEN "exit" ELSE "ok"]

\* reassign_loadseq: the offset of the file seq_in
loadseqFile(f, len, offset) ==
    LET curr == f.pos
        f2 == SeekSet(f, offset)
        got == Min(SeqBytes(len), f.size - offset)
        f3 == [f2 EXCEPT !.pos = @ + Max(got, 0)]
    IN  IF got < SeqBytes(len) THEN [file |-> f3, st |-> "exit"]
        ELSE [file |-> SeekSet(f3, curr), st |-> "ok"]

\* the calls modelled here are bounded in number
MaxCalls == 3

callFrame == <<pc, matchVars, kmerVars, matrixVars, tmplVars, efVars,
               printVars,
               bestTemplates, template, popped, h_input, qseq_comp,
               qseq_rc_comp, Score, bestTemplates_r, k_rc, k_looked>>

\* reassign_template(templates, 0, 0, 0, 0, 0, 0, 0): "clean up"
C_Teardown ==
    /\ pc = "calls"
    /\ Len(calls) < MaxCalls
    /\ IsTeardown([name_file |-> FALSE, seq_in |-> FALSE,
                   template_lengths |-> FALSE, aligned_assem |-> FALSE,
                   matrix |-> FALSE, qseq |-> FALSE, tseq |-> FALSE])
    /\ frees' = [c \in Caches |->
                    frees[c] + IF c \in teardownFrees(statics) THEN 1 ELSE 0]
    /\ statics' = [s \in Statics |-> 0]
    /\ name_indexes' = <<>>
    /\ seq_indexes' = <<>>
    /\ calls' = Append(calls, [kind |-> "teardown", init |-> FALSE,
                               ret |-> 0, name_pos |-> name_file.pos,
                               seq_pos |-> seq_file.pos])
    /\ UNCHANGED <<callFrame, templates, template_lengths, allocs, name_file,
                   seq_file>>

\* the static scratch after "init": the pointers, the allocations and the
\* file indexes; the position of name_file is saved in name_indexes[0]
lazyInit(DB_size, lengths, nf, fd) ==
    LET blank == [i \in 1 .. DB_size + 1 |-> -1]
        sidx == seqIndexFrom([blank EXCEPT ![1] = fd, ![2] = 0], lengths,
                             2, DB_size)
        nidx0 == [blank EXCEPT ![1] = nf.pos, ![2] = 0, ![3] = 0]
        r == nameIndexFrom(SeekSet(nf, 0), nidx0, 2, DB_size,
                           Len(nf.text) + DB_size + 1)
    IN  [st |-> r.st,
         name_file |-> SeekSet(r.file, r.idx[1]),
         name_indexes |-> r.idx,
         seq_indexes |-> sidx]

\* the end of a call that returns template id: the name is loaded and the
\* position of name_file is put back
loadName(nf, nidx, id) ==
    LET saved == [nidx EXCEPT ![1] = nf.pos]
        f2 == nameLoad(SeekSet(nf, saved[id + 1]))
    IN  [name_file |-> SeekSet(f2, saved[1]), name_indexes |-> saved]

\* the file descriptors of the sequence file: 0 is a valid descriptor
SeqFds == {0, 3}

\* a call with arguments: the scratch is initialised if it has to be, the
\* candidate cand is loaded (0: the scanner found none), and template id
\* is returned (0: no candidate matched); the search itself is the
\* pipeline of T_Enter .. T_Stats
C_Work ==
    /\ pc = "calls"
    /\ Len(calls) < MaxCalls
    /\ \E fd \in SeqFds :
       /\ ~IsTeardown([name_file |-> TRUE, seq_in |-> fd # 0,
                       template_lengths |-> TRUE, aligned_assem |-> TRUE,
                       matrix |-> TRUE, qseq |-> TRUE, tseq |-> TRUE])
       /\ LET init == needsInit(statics)
              li == lazyInit(templates.DB_size, template_lengths, name_file,
                             fd)
              nf1 == IF init THEN li.name_file ELSE name_file
              nidx1 == IF init THEN li.name_indexes ELSE name_indexes
              sidx1 == IF init THEN li.seq_indexes ELSE seq_indexes
          IN  /\ init => li.st = "ok"
              /\ statics' = IF init THEN [s \in Statics |-> 1] ELSE statics
              /\ allocs' = IF init THEN [c \in Caches |-> allocs[c] + 1]
                           ELSE allocs
              /\ seq_indexes' = sidx1
              /\ \E cand \in 0 .. templates.DB_size - 1,
                    id \in 0 .. templates.DB_size - 1 :
                    /\ id > 0 => cand = id
                    /\ IF cand = 0 THEN seq_file' = seq_file
                       ELSE LET l == loadseqFile(seq_file,
                                                 template_lengths[cand],
                                                 sidx1[cand + 1])
                            IN  l.st = "ok" /\ seq_file' = l.file
                    /\ IF id = 0
                       THEN name_file' = nf1 /\ name_indexes' = nidx1
                       ELSE LET n == loadName(nf1, nidx1, id)
                            IN  /\ name_file' = n.name_file
                                /\ name_indexes' = n.name_indexes
                    /\ calls' = Append(calls,
                           [kind |-> "work", init |-> init, ret |-> id,
                            name_pos |-> name_file.pos,
                            seq_pos |-> seq_file.pos])
    /\ UNCHANGED <<callFrame, templates, template_lengths, frees>>

\* the caller reads the names or the sequences between two calls
C_Caller ==
    /\ pc = "calls"
    /\ Len(calls) < MaxCalls
    /\ \E np \in {0, Len(name_file.text)}, sp \in {0, seq_file.size} :
          /\ (np = 0) <=> (sp = 0)
          /\ name_file' = SeekSet(name_file, np)
          /\ seq_file' = SeekSet(seq_file, sp)
          /\ <<np, sp>> # <<name_file.pos, seq_file.pos>>
    /\ UNCHANGED <<callFrame, templates, template_lengths, statics, allocs,
                   frees, name_indexes, seq_indexes, calls>>

\* ------------------------------------------------- inputs of the calls

\* the lengths of the templates of the database
CallLengths == <<8, 40, 5, 70>>

\* their names
CallNames == << <<"x">>, <<"y", "z">>, <<>>, <<"w">> >>

RECURSIVE NameText(_)
NameText(n) ==
    IF n = 0 THEN <<>> ELSE NameText(n - 1) \o CallNames[n] \o <<NL>>

InitCalls ==
    /\ pc = "calls"
    /\ MatchIdle
    /\ MatrixIdle
    /\ TmplIdle
    /\ EFIdle
    /\ PrintIdle
    /\ bestTemplates = <<>>
    /\ template = 0
    /\ popped = <<>>
    /\ h_input = <<>>
    /\ qseq_comp = <<>>
    /\ qseq_rc_comp = <<>>
    /\ Score = <<>>
    /\ bestTemplates_r = <<>>
    /\ k_rc = 0
    /\ k_looked = <<>>
    /\ \E n \in {1, 2, Len(CallLengths)} :
          /\ templates = [DB_size |-> n + 1]
          /\ template_lengths = SubSeq(CallLengths, 1, n)
          /\ name_file = [text |-> NameText(n), pos |-> 0]
          /\ seq_file = [size |-> Total([i \in 1 .. n |->
                                            SeqBytes(CallLengths[i])]),
                         pos |-> 0]
    /\ statics = [s \in Statics |-> 0]
    /\ allocs = [c \in Caches |-> 0]
    /\ frees = [c \in Caches |-> 0]
    /\ name_indexes = <<>>
    /\ seq_indexes = <<>>
    /\ calls = <<>>

NextCalls == C_Teardown \/ C_Work \/ C_Caller

SpecCalls == InitCalls /\ [][NextCalls]_vars

\* ------------------------------------------- properties of the calls

LastCall == calls[Len(calls)]

\* C16: every call leaves the cursors of the shared database files where
\* they were: the offset of seq_in after reassign_loadseq and the position
\* of name_file after the name indexing of "init" and after the final
\* nameLoad are the values they had on entry.
C16_CursorsRestored ==
    [][calls' # calls =>
          /\ name_file'.pos = name_file.pos
          /\ seq_file'.pos = seq_file.pos
          /\ name_file'.text = name_file.text
          /\ seq_file'.size = seq_file.size]_vars

\* a call that indexed the names, loaded a sequence and a name, entered
\* with both cursors away from the start of their files
C16_Witness ==
    /\ calls # <<>>
    /\ LastCall.kind = "work"
    /\ LastCall.init
    /\ LastCall.ret > 1
    /\ LastCall.name_pos > 0
    /\ LastCall.seq_pos > 0
    /\ name_file.pos = LastCall.name_pos
    /\ seq_file.pos = LastCall.seq_pos

\* call i is the first call with arguments since the start of the process
\* or since the last teardown
FirstSinceTeardown(i) ==
    /\ calls[i].kind = "work"
    /\ \A j \in 1 .. i - 1 :
          calls[j].kind = "work" =>
             \E k \in j + 1 .. i - 1 : calls[k].kind = "teardown"

TornDown ==
    /\ \A s \in Statics : statics[s] = 0
    /\ \A c \in Caches : frees[c] = allocs[c]
    /\ LastCall.ret = 0

\* C17: the static scratch is initialised on a call if and only if the
\* call is the first one with arguments since the start of the process or
\* since the last teardown call; a teardown call releases every allocated
\* cache exactly once, resets every static pointer to null, returns 0 and
\* leaves the Assem and the AssemInfo alone.
C17_InitOncePerLifetime ==
    /\ [](/\ \A i \in 1 .. Len(calls) :
                calls[i].init <=> FirstSinceTeardown(i)
          /\ \A c \in Caches : frees[c] <= allocs[c]
          /\ (calls # <<>> /\ LastCall.kind = "teardown") => TornDown)
    /\ [][(calls' # calls /\ calls'[Len(calls')].kind = "teardown") =>
             UNCHANGED <<aligned_assem, matrix>>]_vars

\* a second lifetime: the scratch was set up, torn down and set up again
C17_Witness ==
    /\ Len(calls) = 3
    /\ calls[1].init
    /\ calls[2].kind = "teardown"
    /\ calls[3].init
    /\ \A c \in Caches : allocs[c] = 2 /\ frees[c] = 1

\* ======================================================= printConsensus

\* the width of the lines of the consensus and of the alignment, scaled
\* down from the 60 of "%.60s"
LineWidth == 2

\* the alignments handed to printConsensus have at most MaxPrintCols
\* columns
MaxPrintCols == 5

printFrame == <<matchVars, heapVars, kmerVars, tmplVars, matrix, tseq,
                mo_offset, mo_t_len, mo_status, mo, matrix0, efVars,
                callVars>>

\* the column test of the trimming loop
keepColumn_QOnly(tc, qc) == ~(qc = "-")

keepColumn(tc, qc) == ~(tc = "-" /\ qc = "-")

\* printf("%.60s", buf + i): the characters from buf[i], at most LineWidth
\* of them, up to the terminator
RECURSIVE upTo60(_, _, _)
upTo60(buf, i, n) ==
    IF n = 0 \/ buf[i + 1] = NUL THEN <<>>
    ELSE <<buf[i + 1]>> \o upTo60(buf, i + 1, n - 1)

\* for(i = 0; i < aln_len; i += 60) fprintf(.., "%.60s\n", q + i)
RECURSIVE linesFrom(_, _, _)
linesFrom(buf, i, aln_len) ==
    IF i >= aln_len THEN <<>>
    ELSE <<upTo60(buf, i, LineWidth)>>
         \o linesFrom(buf, i + LineWidth, aln_len)

\* the blocks of the alignment file
RECURSIVE blocksFrom(_, _, _)
blocksFrom(a, i, aln_len) ==
    IF i >= aln_len THEN <<>>
    ELSE << <<upTo60(a.t, i, LineWidth), upTo60(a.s, i, LineWidth),
              upTo60(a.q, i, LineWidth)>> >>
         \o blocksFrom(a, i + LineWidth, aln_len)

\* ref_fsa == 0: the loop that closes the gaps of q, from column i on;
\* the result is the buffer and bias
RECURSIVE trimFrom(_, _, _, _)
trimFrom(q, i, bias, aln_len) ==
    IF i >= aln_len THEN [q |-> q, bias |-> bias]
    ELSE LET q1 == [q EXCEPT ![bias + 1] = q[i + 1]]
         IN  trimFrom(q1, i + 1,
                      IF q1[i + 1] = "-" THEN bias ELSE bias + 1, aln_len)

\* ref_fsa == 1: the gaps of q become n
gapsToN(q, aln_len) ==
    [c \in 1 .. Len(q) |-> IF c <= aln_len /\ q[c] = "-" THEN "n" ELSE q[c]]

\* entry: the pointers are set, i = len + 1
P_Enter ==
    /\ pc = "p_call"
    /\ p_loc' = [i |-> aligned_assem.len + 1, w |-> 0, r |-> 0,
                 aln_len |-> 0]
    /\ pc' = "p_trim"
    /\ UNCHANGED <<printFrame, aligned_assem, assem0, ref_fsa,
                   alignment_out, consensus_out>>

\* one turn of while(--i): w characters have been written (t, s and q
\* point at the last one), t_next, s_next and q_next are at r
P_Column ==
    /\ pc = "p_trim"
    /\ p_loc.i - 1 # 0
    /\ LET a == aligned_assem
           r == p_loc.r
           w == p_loc.w
       IN  IF ~keepColumn(a.t[r + 1], a.q[r + 1])
           THEN /\ aligned_assem' = [a EXCEPT !.len = a.len - 1]
                /\ p_loc' = [p_loc EXCEPT !.i = @ - 1, !.r = r + 1]
           ELSE /\ aligned_assem' =
                       [a EXCEPT !.t[w + 1] = a.t[r + 1],
                                 !.s[w + 1] = a.s[r + 1],
                                 !.q[w + 1] = a.q[r + 1]]
                /\ p_loc' = [p_loc EXCEPT !.i = @ - 1, !.r = r + 1,
                                          !.w = w + 1]
    /\ UNCHANGED <<pc, printFrame, assem0, ref_fsa, alignment_out,
                   consensus_out>>

\* the loop is left: the three strings are terminated and the alignment
\* is printed if there is a file for it
P_Align ==
    /\ pc = "p_trim"
    /\ p_loc.i - 1 = 0
    /\ LET w == p_loc.w
           a == [aligned_assem EXCEPT !.t[w + 1] = NUL, !.s[w + 1] = NUL,
                                      !.q[w + 1] = NUL]
       IN  /\ aligned_assem' = a
           /\ p_loc' = [p_loc EXCEPT !.i = 0, !.aln_len = a.len]
           /\ alignment_out' =
                 IF alignment_out.null THEN alignment_out
                 ELSE [alignment_out EXCEPT
                         !.lines = @ \o << <<"# header">> >>
                                   \o blocksFrom(a, 0, a.len)]
    /\ pc' = "p_prepare"
    /\ UNCHANGED <<printFrame, assem0, ref_fsa, consensus_out>>

\* "Prepare consensus"
P_Prepare ==
    /\ pc = "p_prepare"
    /\ LET a == aligned_assem
           n == p_loc.aln_len
       IN  IF ref_fsa = 0
           THEN LET tr == trimFrom(a.q, 0, 0, n)
                IN  /\ aligned_assem' =
                          [a EXCEPT !.q = [tr.q EXCEPT ![tr.bias + 1] = NUL]]
                    /\ p_loc' = [p_loc EXCEPT !.aln_len = tr.bias]
           ELSE IF ref_fsa = 1
           THEN /\ aligned_assem' = [a EXCEPT !.q = gapsToN(a.q, n)]
                /\ p_loc' = p_loc
           ELSE /\ aligned_assem' = a
                /\ p_loc' = p_loc
    /\ pc' = "p_print"
    /\ UNCHANGED <<printFrame, assem0, ref_fsa, alignment_out,
                   consensus_out>>

\* "Print consensus"
P_Print ==
    /\ pc = "p_print"
    /\ consensus_out' = consensus_out \o <<">header">>
                        \o linesFrom(aligned_assem.q, 0, p_loc.aln_len)
    /\ pc' = "p_done"
    /\ UNCHANGED <<printFrame, aligned_assem, assem0, ref_fsa,
                   alignment_out, p_loc>>

\* --------------------------------------------- inputs of printConsensus

\* the columns: a match, an insertion, a deletion, and a column in which
\* both the template and the query have a gap
PrintKinds == {"M", "I", "D", "B"}

MkPrintAssem(kinds) ==
    [t |-> [c \in 1 .. Len(kinds) |->
              IF kinds[c] \in {"I", "B"} THEN "-" ELSE bases[TBase(c) + 1]]
           \o <<NUL>>,
     s |-> [c \in 1 .. Len(kinds) |-> IF kinds[c] = "M" THEN "|" ELSE "_"]
           \o <<NUL>>,
     q |-> [c \in 1 .. Len(kinds) |->
              IF kinds[c] \in {"D", "B"} THEN "-" ELSE bases[QBase(c) + 1]]
           \o <<NUL>>,
     len |-> Len(kinds)]

RefModes == {0, 1, 2}

InitPrint ==
    /\ pc = "p_call"
    /\ MatchIdle
    /\ HeapIdle
    /\ KmerIdle
    /\ TmplIdle
    /\ EFIdle
    /\ CallsIdle
    /\ matrix = <<>>
    /\ tseq = <<>>
    /\ mo_offset = 0
    /\ mo_t_len = 0
    /\ mo_status = "none"
    /\ mo = <<>>
    /\ matrix0 = <<>>
    /\ \E n \in 0 .. MaxPrintCols :
       \E kinds \in [1 .. n -> PrintKinds] :
          /\ aligned_assem = MkPrintAssem(kinds)
          /\ assem0 = MkPrintAssem(kinds)
    /\ ref_fsa \in RefModes
    /\ alignment_out \in [null : BOOLEAN, lines : {<<>>}]
    /\ consensus_out = <<>>
    /\ p_loc = <<>>

NextPrint == P_Enter \/ P_Column \/ P_Align \/ P_Prepare \/ P_Print

SpecPrint == InitPrint /\ [][NextPrint]_vars

\* ------------------------------------------ properties of printConsensus

\* the columns of the Assem on entry that are not gaps in both t and q
KeptColumns ==
    SelectSeq([c \in 1 .. assem0.len |-> c],
              LAMBDA c : ~(assem0.t[c] = "-" /\ assem0.q[c] = "-"))

Remaining(str) == [k \in 1 .. Len(KeptColumns) |-> str[KeptColumns[k]]]

\* the three strings and len after the trimming
Trimmed ==
    /\ aligned_assem.len = Len(KeptColumns)
    /\ SubSeq(aligned_assem.t, 1, aligned_assem.len + 1)
          = Remaining(assem0.t) \o <<NUL>>
    /\ SubSeq(aligned_assem.s, 1, aligned_assem.len + 1)
          = Remaining(assem0.s) \o <<NUL>>
    /\ pc = "p_prepare" =>
          SubSeq(aligned_assem.q, 1, aligned_assem.len + 1)
             = Remaining(assem0.q) \o <<NUL>>

RECURSIVE Flatten(_)
Flatten(ls) == IF ls = <<>> THEN <<>> ELSE Head(ls) \o Flatten(Tail(ls))

\* the query written to consensus_out: its lines after the header
Emitted == Flatten(Tail(consensus_out))

\* C18: printConsensus first drops every column in which both t and q are
\* gaps, and t, s, q and len stay consistent; then with ref_fsa == 0 the
\* query that is written is the remaining q without its gaps, in order,
\* and with ref_fsa == 1 it is the remaining q with every gap replaced by
\* n and every other character as it was.
C18_Consensus ==
    /\ pc \in {"p_prepare", "p_print", "p_done"} => Trimmed
    /\ (pc = "p_done" /\ ref_fsa = 0) =>
          Emitted = SelectSeq(Remaining(assem0.q), IsBase)
    /\ (pc = "p_done" /\ ref_fsa = 1) =>
          Emitted = [k \in 1 .. Len(KeptColumns) |->
                        IF Remaining(assem0.q)[k] = "-" THEN "n"
                        ELSE Remaining(assem0.q)[k]]

\* a consensus of more than one line was written after a column of two
\* gaps had been dropped and with a gap of the query left
C18_Witness ==
    /\ pc = "p_done"
    /\ ref_fsa \in {0, 1}
    /\ Len(KeptColumns) < assem0.len
    /\ \E k \in 1 .. Len(KeptColumns) : Remaining(assem0.q)[k] = "-"
    /\ Len(consensus_out) > 2

\* ---------------------------------------- termination of the matcher

\* an iteration of the while loop that leaves start and match as they
\* were: the loop is run again from the same state
SameAgain ==
    /\ pc = "ms_loop"
    /\ MS_Guard
    /\ matchBody(m_consensus, m_qseq, start + 1)
          = [match |-> match, start |-> start]

\* C19: reassign_matchseqs terminates on every pair of consensus and
\* candidate, returning -1 when no placement succeeds: when the leading
\* word of the candidate is not found, or the only occurrence is blocked
\* by an N, the start of the search moves strictly forward from one turn
\* of the loop to the next until it runs off the end, and is never set
\* back to an earlier position.
C19_Terminates ==
    /\ []~SameAgain
    /\ [][(pc = "ms_loop" /\ pc' = "ms_loop" /\ start >= 0) =>
             start' > start]_vars

\* ------------------------------------------ the windows of the scanner

\* the sequence of the pass whose lookups k_looked holds, when one pass
\* has been made since the last sweep
PassSeq == IF k_rc = 0 THEN qseq_comp ELSE qseq_rc_comp

\* its N positions, without the sentinel
PassNs == {PassSeq.N[i] : i \in 1 .. Len(PassSeq.N)} \ {PassSeq.seqlen}

\* the starts of the windows of kmersize bases that lie wholly inside a
\* stretch without N
InsideWindows ==
    {p \in 0 .. PassSeq.seqlen - templates.kmersize :
        \A n \in PassNs : n < p \/ n > p + templates.kmersize - 1}

LookedWindows == {k_looked[i].pos : i \in 1 .. Len(k_looked)}

\* one pass of the loop without prefix has been made
PassMade == pc = "k_sweep" /\ templates.prefix_len = 0

\* C20: in each pass of reassign_kmers over a sequence with N positions
\* the windows that are looked up are exactly the windows of kmersize
\* bases that lie wholly inside a maximal stretch without N, each once: no
\* window covers an N, the scan of a stretch after the first starts at the
\* base after the N before it, and no window is skipped because an
\* earlier stretch was shorter than kmersize.
C20_WindowsInsideStretches ==
    PassMade =>
       /\ LookedWindows = InsideWindows
       /\ Len(k_looked) = Cardinality(LookedWindows)

\* ------------------------------------ the scratch of the scanner at return

KmersReturned == pc = "k_ret"

\* C21: when reassign_kmers returns, with and without prefix, every entry
\* of Score is zero again, so that the next call starts from a clean
\* scratch, and the sentinel seqlen that was appended to the N list of
\* each sequence has been removed: N[0] is what it was on entry.
C21_ScratchRestored ==
    /\ [](KmersReturned => \A t \in DOMAIN Score : Score[t] = 0)
    /\ \A a, b \in 0 .. MaxSeq :
          (Len(qseq_comp.N) = a /\ Len(qseq_rc_comp.N) = b) =>
             [](KmersReturned =>
                   /\ Len(qseq_comp.N) = a
                   /\ Len(qseq_rc_comp.N) = b
                   /\ \A i \in 1 .. a : qseq_comp.N[i] < qseq_comp.seqlen)

\* a return with candidates, from a sequence with N positions
C21_Witness ==
    /\ KmersReturned
    /\ Len(qseq_comp.N) = 2
    /\ Len(bestTemplates) >= 2

\* ------------------------------------------- the output of the scanner

\* the scores of one pass of the loop without prefix over qs, from a clean
\* scratch
PassScore(qs) ==
    scanPass(templates, WithSentinel(qs),
             qseq_comp.seqlen - templates.kmersize + 1,
             ZeroScore(templates), <<>>, <<>>).Score

\* the templates that a pass over qs scores at or above the threshold
Passing(qs) ==
    {t \in 1 .. templates.DB_size - 1 :
        PassScore(qs)[t] >= template_lengths[t] - templates.kmersize + 1}

Entries(S) == {bestTemplates[i] : i \in S}

\* C22: whenever prefix_len == 0 reassign_kmers makes a forward pass and a
\* pass over the reverse complement, and the list it returns holds +t
\* exactly when the forward score of t reaches template_lengths[t] -
\* kmersize + 1 and -t exactly when the reverse score of t reaches it, each
\* once, all reverse entries after all forward entries.
C22_BothStrands ==
    (KmersReturned /\ templates.prefix_len = 0) =>
       LET n == Len(bestTemplates)
           fw == {i \in 1 .. n : bestTemplates[i] > 0}
           rv == {i \in 1 .. n : bestTemplates[i] < 0}
       IN  /\ fw \cup rv = 1 .. n
           /\ \A i \in fw, j \in rv : i < j
           /\ Entries(fw) = Passing(qseq_comp)
           /\ Entries(rv) = {-t : t \in Passing(qseq_rc_comp)}
           /\ Cardinality(Entries(1 .. n)) = n

\* the same for the indexes that have no prefix at all
BothStrandsNoPrefix == templates.prefix = 0 => C22_BothStrands

\* ---------------------------------------------- the claims of the chunks

\* the starts are handed out in increasing order, from index lo of the
\* history on
IncreasingFrom(S) == \A i, j \in S : i < j => claimed[i] < claimed[j]

Below == {i \in 1 .. Len(claimed) : claimed[i] < ef_t_len}

\* every start below t_len has been claimed, once the round is done
AllClaimed ==
    RoundDone =>
       {claimed[i] : i \in Below}
          = {c \in 0 .. ef_t_len - 1 : c % Chunk = 0}

\* after a start at or above t_len no start below t_len is handed out
NoneBelowAfter ==
    \A i, j \in 1 .. Len(claimed) :
       (i < j /\ claimed[i] >= ef_t_len) => claimed[j] >= ef_t_len

\* C23: the chunk starts handed to the workers are pairwise distinct and
\* increase in the order of the claims, every start below t_len is claimed
\* by exactly one worker, and after a start at or above t_len no later
\* claim gives a start below t_len, also when next + chunk passes the
\* largest int and next is set to t_len.
C23_ChunkStarts ==
    /\ IncreasingFrom(1 .. Len(claimed))
    /\ AllClaimed
    /\ NoneBelowAfter

\* the same with the order and the distinctness asked of the starts below
\* t_len only
C23_StartsBelowTLen ==
    /\ IncreasingFrom(Below)
    /\ AllClaimed
    /\ NoneBelowAfter

\* a round in which next + chunk passed the largest int: next was set to
\* t_len and the start t_len was handed out after a larger one
C23_Witness ==
    /\ RoundDone
    /\ Cardinality(Below) >= 3
    /\ \E i \in 1 .. Len(claimed) - 1 :
          claimed[i] > ef_t_len /\ claimed[i + 1] = ef_t_len

\* --------------------------------------- the predecessor in the relink loop

\* the column the relink loop starts at is a deletion: a gap in q under a
\* base of t
StartsAtDeletion ==
    \E c \in 1 .. assem0.len :
       /\ Len(NonGap(assem0.q, c - 1)) = mo_offset
       /\ assem0.q[c] = "-"
       /\ assem0.t[c] # "-"

\* C24: for every alignment and every offset that reassign_matchseqs can
\* return for it, the relink loop of reassign_matrix_offset has set new_ptr
\* before it is first used in new_ptr->next = pos, also when the first
\* column at the offset is a deletion.
C24_PredecessorSet == Enough => mo_status # "null"

\* ------------------------------------------- the published matrix length

\* C25: after reassign_matrix_offset returns, every node reachable from
\* node 0 via next has an index below matrix.len, and matrix.len is at most
\* matrix.size.
C25_LenBoundsLive ==
    Returned =>
       /\ \A i \in 1 .. Len(LiveList) : LiveList[i] < matrix.len
       /\ matrix.len <= matrix.size

\* the same for the offsets inside the consensus
LenBoundsLiveInRange == Enough => C25_LenBoundsLive

\* ------------------------------------------------ the barrier, re-entered

\* every worker of the pool has returned from its last call
AllReturned ==
    \A w \in BagToSet(workers) : w.pc = "done" /\ w.round = MaxRounds

\* a worker waits for thread_wait == 0 in a round that another worker has
\* left and entered again
Trapped ==
    /\ thread_wait # 0
    /\ \E w, v \in BagToSet(workers) :
          /\ w.pc = "wait"
          /\ v.round > w.round

\* C26: when the same pool of two or more workers calls
\* getExtendedFeatures round after round, every worker of every round
\* returns in the end under fair scheduling; a worker that still waits for
\* thread_wait == 0 is not held by a worker that has entered the next round
\* and set thread_wait to thread_num again.
C26_EveryWorkerReturns == <>AllReturned

\* no worker is ever held in the wait of a round that another has left
NeverTrapped == ~Trapped

\* the first-entering initialisation is made while no worker is between its
\* entry and its fold: once per round
InitOncePerRound ==
    [][(thread_wait = 0 /\ thread_wait' # 0) =>
          \A w \in BagToSet(workers) : w.pc \in {"enter", "wait", "done"}]_vars

====
